---- MODULE Spec2Model ----
(***************************************************************************)
(* Model of the YNAB4 budget parser (src/src/ynab_io/parser.py), of        *)
(* DeviceManager (src/src/ynab_io/device_manager.py), of YnabWriter        *)
(* (src/src/ynab_io/writer.py) and of LockManager                          *)
(* (src/src/ynab_io/safety.py), each under a specification of its own.     *)
(*                                                                         *)
(* Python strings are sequences of one-character strings, so that parsing  *)
(* and formatting of version tokens are computed, not assumed.  Python     *)
(* dicts are functions whose DOMAIN is the set of keys present.            *)
(***************************************************************************)
EXTENDS Integers, Sequences, FiniteSets, TLC

(***************************************************************************)
(* Characters and strings                                                  *)
(***************************************************************************)
LetterSeq ==
    <<"A","B","C","D","E","F","G","H","I","J","K","L","M",
      "N","O","P","Q","R","S","T","U","V","W","X","Y","Z">>

UpperLetters == {LetterSeq[i] : i \in 1..Len(LetterSeq)}

DigitChars == {"0","1","2","3","4","5","6","7","8","9"}

DigitValue(c) ==
    CASE c = "0" -> 0 [] c = "1" -> 1 [] c = "2" -> 2 [] c = "3" -> 3
      [] c = "4" -> 4 [] c = "5" -> 5 [] c = "6" -> 6 [] c = "7" -> 7
      [] c = "8" -> 8 [] c = "9" -> 9

DigitChar(d) ==
    CASE d = 0 -> "0" [] d = 1 -> "1" [] d = 2 -> "2" [] d = 3 -> "3"
      [] d = 4 -> "4" [] d = 5 -> "5" [] d = 6 -> "6" [] d = 7 -> "7"
      [] d = 8 -> "8" [] d = 9 -> "9"

\* str.strip(): drop leading and trailing blanks
RECURSIVE LStrip(_)
LStrip(s) == IF s # <<>> /\ Head(s) = " " THEN LStrip(Tail(s)) ELSE s

RECURSIVE RStrip(_)
RStrip(s) ==
    IF s # <<>> /\ s[Len(s)] = " " THEN RStrip(SubSeq(s, 1, Len(s) - 1)) ELSE s

Strip(s) == RStrip(LStrip(s))

\* str.split(sep): the pieces between the separators, empty pieces kept
RECURSIVE SplitFrom(_, _, _, _)
SplitFrom(s, sep, i, cur) ==
    IF i > Len(s) THEN <<cur>>
    ELSE IF s[i] = sep THEN <<cur>> \o SplitFrom(s, sep, i + 1, <<>>)
    ELSE SplitFrom(s, sep, i + 1, Append(cur, s[i]))

Split(s, sep) == SplitFrom(s, sep, 1, <<>>)

\* int(digits) of a non-empty run of decimal digits
RECURSIVE IntOfDigits(_)
IntOfDigits(ds) ==
    IF ds = <<>> THEN 0
    ELSE 10 * IntOfDigits(SubSeq(ds, 1, Len(ds) - 1)) + DigitValue(ds[Len(ds)])

\* f"{n}" of a non-negative integer
RECURSIVE StrOfInt(_)
StrOfInt(n) ==
    IF n < 10 THEN <<DigitChar(n)>>
    ELSE Append(StrOfInt(n \div 10), DigitChar(n % 10))

\* A local variable: The({ body : name \in {value} }) is body with name bound
\* to the value, which is computed once.
The(S) == CHOOSE v \in S : TRUE

(***************************************************************************)
(* DeviceManager: version tokens and composite knowledge strings           *)
(***************************************************************************)
\* VERSION_PATTERN = ^([A-Z])-(\d+)$
VERSION_PATTERN(s) ==
    /\ Len(s) >= 3
    /\ s[1] \in UpperLetters
    /\ s[2] = "-"
    /\ \A i \in 3..Len(s) : s[i] \in DigitChars

\* A failed call is a record with ok = FALSE (the ValueError raised).
parse_version_string(version_str) ==
    IF VERSION_PATTERN(version_str)
    THEN [ok |-> TRUE, device_id |-> version_str[1],
          version_num |-> IntOfDigits(SubSeq(version_str, 3, Len(version_str)))]
    ELSE [ok |-> FALSE, device_id |-> "", version_num |-> 0]

\* [part.strip() for part in composite_str.split(',') if part.strip()]
RECURSIVE NonEmptyStripped(_)
NonEmptyStripped(parts) ==
    IF parts = <<>> THEN <<>>
    ELSE IF Strip(Head(parts)) = <<>> THEN NonEmptyStripped(Tail(parts))
    ELSE <<Strip(Head(parts))>> \o NonEmptyStripped(Tail(parts))

parse_composite_knowledge_string(composite_str) == The({
    IF s = <<>> THEN [ok |-> FALSE, versions |-> <<>>]
    ELSE IF \A i \in 1..Len(s) : s[i] # ","
    THEN The({ IF p.ok
               THEN [ok |-> TRUE, versions |-> <<<<p.device_id, p.version_num>>>>]
               ELSE [ok |-> FALSE, versions |-> <<>>]
               : p \in {parse_version_string(s)} })
    ELSE The({
         IF version_parts = <<>> THEN [ok |-> FALSE, versions |-> <<>>]
         ELSE The({
              IF \E i \in 1..Len(parsed) : ~parsed[i].ok
              THEN [ok |-> FALSE, versions |-> <<>>]
              ELSE [ok |-> TRUE,
                    versions |-> [i \in 1..Len(parsed) |->
                        <<parsed[i].device_id, parsed[i].version_num>>]]
              : parsed \in {[i \in 1..Len(version_parts) |->
                                parse_version_string(version_parts[i])]} })
         : version_parts \in {NonEmptyStripped(Split(s, ","))} })
    : s \in {Strip(composite_str)} })

\* Order of the single-letter device ids (Python compares the code points).
LetterRank(c) == CHOOSE i \in 1..Len(LetterSeq) : LetterSeq[i] = c

\* Variant: the counter alone decides.
KeyLess_counter_only(a, b) == a[2] < b[2]

\* key=lambda x: (x[1], x[0]) : tuple order, counter first, then device id
KeyLess(a, b) ==
    \/ a[2] < b[2]
    \/ a[2] = b[2] /\ LetterRank(a[1]) < LetterRank(b[1])

\* max(seq, key=...) : the first element no other element exceeds
MaxByKey(seq) ==
    LET i == CHOOSE j \in 1..Len(seq) :
                 /\ \A k \in 1..Len(seq) : ~KeyLess(seq[j], seq[k])
                 /\ \A k \in 1..(j - 1) : KeyLess(seq[k], seq[j])
    IN seq[i]

get_latest_version_from_composite(composite_str) == The({
    IF ~parsed.ok THEN [ok |-> FALSE, version |-> <<>>]
    ELSE The({ [ok |-> TRUE,
                version |-> <<latest_version[1], "-">>
                            \o StrOfInt(latest_version[2])]
               : latest_version \in {MaxByKey(parsed.versions)} })
    : parsed \in {parse_composite_knowledge_string(composite_str)} })

\* Variant: the counter decides first, then the device id.
compare_versions_by_counter(version1, version2) == The({
    IF ~v[1].ok \/ ~v[2].ok THEN [ok |-> FALSE, value |-> 0]
    ELSE [ok |-> TRUE,
          value |-> IF KeyLess(<<v[1].device_id, v[1].version_num>>,
                               <<v[2].device_id, v[2].version_num>>) THEN -1
                    ELSE IF KeyLess(<<v[2].device_id, v[2].version_num>>,
                                    <<v[1].device_id, v[1].version_num>>) THEN 1
                    ELSE 0]
    : v \in {<<parse_version_string(version1), parse_version_string(version2)>>} })

\* compare_versions(version1, version2): the device ids are compared first,
\* then the counters; ok = FALSE is the ValueError of a malformed token
compare_versions(version1, version2) == The({
    IF ~v[1].ok \/ ~v[2].ok THEN [ok |-> FALSE, value |-> 0]
    ELSE [ok |-> TRUE,
          value |-> IF LetterRank(v[1].device_id) < LetterRank(v[2].device_id)
                    THEN -1
                    ELSE IF LetterRank(v[1].device_id) > LetterRank(v[2].device_id)
                    THEN 1
                    ELSE IF v[1].version_num < v[2].version_num THEN -1
                    ELSE IF v[1].version_num > v[2].version_num THEN 1
                    ELSE 0]
    : v \in {<<parse_version_string(version1), parse_version_string(version2)>>} })

\* version_sort_key of get_latest_version: (version_num, device_id)
version_sort_key(version_str) == The({
    <<v.device_id, v.version_num>> : v \in {parse_version_string(version_str)} })

\* max(all_latest_versions, key=version_sort_key): the first greatest one
MaxVersion(all_latest_versions) ==
    all_latest_versions[
        CHOOSE j \in 1..Len(all_latest_versions) :
            /\ \A k \in 1..Len(all_latest_versions) :
                   ~KeyLess(version_sort_key(all_latest_versions[j]),
                            version_sort_key(all_latest_versions[k]))
            /\ \A k \in 1..(j - 1) :
                   KeyLess(version_sort_key(all_latest_versions[k]),
                           version_sort_key(all_latest_versions[j]))]

\* Variant: the greatest token in the order of compare_versions.
get_latest_version_by_device(versions) == The({
    IF versions = <<>> \/ \E i \in 1..Len(l) : ~l[i].ok
    THEN [ok |-> FALSE, version |-> <<>>]
    ELSE [ok |-> TRUE,
          version |-> l[CHOOSE j \in 1..Len(l) : \A k \in 1..Len(l) :
                            compare_versions(l[j].version, l[k].version).value >= 0
                       ].version]
    : l \in {[i \in 1..Len(versions) |->
                 get_latest_version_from_composite(versions[i])]} })

\* get_latest_version(versions): the greatest of the latest tokens of the
\* knowledge strings; ok = FALSE is the ValueError of an empty list or of a
\* malformed string
get_latest_version(versions) == The({
    IF versions = <<>> \/ \E i \in 1..Len(l) : ~l[i].ok
    THEN [ok |-> FALSE, version |-> <<>>]
    ELSE [ok |-> TRUE,
          version |-> MaxVersion([i \in 1..Len(l) |-> l[i].version])]
    : l \in {[i \in 1..Len(versions) |->
                 get_latest_version_from_composite(versions[i])]} })

\* A .ydevice file is its stem, whether its text is valid JSON, and the JSON
\* object.  dict.get(key) followed by a truth test: the key is there and its
\* value is not the empty string.
HasGuid(data) == "deviceGUID" \in DOMAIN data /\ data["deviceGUID"] # ""

HasKnowledge(data) == "knowledge" \in DOMAIN data /\ data["knowledge"] # <<>>

\* _collect_device_knowledges(): the dict GUID -> knowledge in insertion
\* order, as a sequence of pairs; a file that is not valid JSON is skipped
RECURSIVE _collect_device_knowledges(_, _)
_collect_device_knowledges(files, device_knowledges) ==
    IF files = <<>> THEN device_knowledges
    ELSE LET p == Head(files) IN
         _collect_device_knowledges(Tail(files),
            IF p.valid_json /\ HasGuid(p.data) /\ HasKnowledge(p.data)
            THEN IF \E i \in 1..Len(device_knowledges) :
                        device_knowledges[i][1] = p.data["deviceGUID"]
                 THEN [i \in 1..Len(device_knowledges) |->
                          IF device_knowledges[i][1] = p.data["deviceGUID"]
                          THEN <<p.data["deviceGUID"], p.data["knowledge"]>>
                          ELSE device_knowledges[i]]
                 ELSE Append(device_knowledges,
                             <<p.data["deviceGUID"], p.data["knowledge"]>>)
            ELSE device_knowledges)

\* The result of get_active_device_guid: the GUID, or the exception raised.
Guid(guid) == [err |-> "", guid |-> guid]

Raises(err) == [err |-> err, guid |-> ""]

\* _find_device_with_latest_knowledge(device_knowledges)
_find_device_with_latest_knowledge(device_knowledges) == The({
    IF ~latest_knowledge.ok THEN Raises("ValueError")
    ELSE IF \E i \in 1..Len(device_knowledges) :
                get_latest_version_from_composite(device_knowledges[i][2]).version
                    = latest_knowledge.version
    THEN Guid(device_knowledges[
             CHOOSE i \in 1..Len(device_knowledges) :
                 /\ get_latest_version_from_composite(
                        device_knowledges[i][2]).version = latest_knowledge.version
                 /\ \A k \in 1..(i - 1) :
                        get_latest_version_from_composite(
                            device_knowledges[k][2]).version
                            # latest_knowledge.version][1])
    ELSE Guid(device_knowledges[1][1])
    : latest_knowledge \in {get_latest_version(
          [i \in 1..Len(device_knowledges) |-> device_knowledges[i][2]])} })

\* Variant: no .ydevice file and a first file without GUID end alike.
_get_fallback_device_guid_not_found(files) ==
    IF files = <<>> \/ (files[1].valid_json /\ ~HasGuid(files[1].data))
    THEN Raises("FileNotFoundError")
    ELSE IF ~files[1].valid_json THEN Raises("JSONDecodeError")
    ELSE Guid(files[1].data["deviceGUID"])

\* _get_fallback_device_guid(): get_device_guid of the first .ydevice file
_get_fallback_device_guid(files) ==
    IF files = <<>> THEN Raises("FileNotFoundError")
    ELSE IF ~files[1].valid_json THEN Raises("JSONDecodeError")
    ELSE IF ~HasGuid(files[1].data) THEN Raises("ValueError")
    ELSE Guid(files[1].data["deviceGUID"])

\* get_active_device_guid(), files being the .ydevice files of the devices
\* directory in the order iterdir() yields them
get_active_device_guid(files) == The({
    IF device_knowledges # <<>>
    THEN _find_device_with_latest_knowledge(device_knowledges)
    ELSE _get_fallback_device_guid(files)
    : device_knowledges \in {_collect_device_knowledges(files, <<>>)} })

\* str.startswith(prefix)
StartsWith(s, prefix) ==
    Len(s) >= Len(prefix) /\ SubSeq(s, 1, Len(prefix)) = prefix

DataDirPrefix == <<"d", "a", "t", "a", "1", "~">>

\* _get_data_dir(): entries is budget_dir.iterdir() in the order the file
\* system yields it, budget_dir whether a budget directory is set.  The
\* first directory whose name starts with 'data1~' is returned.
RECURSIVE first_data_dir(_)
first_data_dir(entries) ==
    IF entries = <<>>
    THEN [err |-> "FileNotFoundError", dir |-> <<>>]
    ELSE IF Head(entries).is_dir /\ StartsWith(Head(entries).name, DataDirPrefix)
    THEN [err |-> "", dir |-> Head(entries).name]
    ELSE first_data_dir(Tail(entries))

_get_data_dir(budget_dir, entries) ==
    IF ~budget_dir THEN [err |-> "ValueError", dir |-> <<>>]
    ELSE first_data_dir(entries)

\* The result of get_global_knowledge: a version token, None, or the
\* exception raised.
Knowledge(version) == [err |-> "", none |-> FALSE, knowledge |-> version]

NoneKnown == [err |-> "", none |-> TRUE, knowledge |-> <<>>]

\* Variant: a file that is not valid JSON ends the call.
get_global_knowledge_strict(dir_exists, files) ==
    IF ~dir_exists THEN NoneKnown
    ELSE IF \E i \in 1..Len(files) : ~files[i].valid_json
    THEN [err |-> "JSONDecodeError", none |-> FALSE, knowledge |-> <<>>]
    ELSE The({
         IF all_knowledges = <<>> THEN NoneKnown
         ELSE The({ IF latest.ok THEN Knowledge(latest.version)
                    ELSE [err |-> "ValueError", none |-> FALSE, knowledge |-> <<>>]
                    : latest \in {get_latest_version(
                          [i \in 1..Len(all_knowledges) |->
                              all_knowledges[i].data["knowledge"]])} })
         : all_knowledges \in {SelectSeq(files,
               LAMBDA f : "knowledge" \in DOMAIN f.data)} })

\* get_global_knowledge(): None without a devices directory or without a
\* knowledge key in any file that is valid JSON, else get_latest_version of
\* the values of the key
get_global_knowledge(dir_exists, files) ==
    IF ~dir_exists THEN NoneKnown
    ELSE The({
         IF all_knowledges = <<>> THEN NoneKnown
         ELSE The({ IF latest.ok THEN Knowledge(latest.version)
                    ELSE [err |-> "ValueError", none |-> FALSE, knowledge |-> <<>>]
                    : latest \in {get_latest_version(
                          [i \in 1..Len(all_knowledges) |->
                              all_knowledges[i].data["knowledge"]])} })
         : all_knowledges \in {SelectSeq(files,
               LAMBDA f : f.valid_json /\ "knowledge" \in DOMAIN f.data)} })

(***************************************************************************)
(* YnabParser                                                              *)
(***************************************************************************)
\* ok = FALSE is the ValueError the parser re-raises.
_get_version_number_from_composite(composite_version) == The({
    IF ~latest.ok THEN [ok |-> FALSE, version_num |-> 0]
    ELSE The({ IF p.ok THEN [ok |-> TRUE, version_num |-> p.version_num]
               ELSE [ok |-> FALSE, version_num |-> 0]
               : p \in {parse_version_string(latest.version)} })
    : latest \in {get_latest_version_from_composite(composite_version)} })

\* Python's None
None == "None"

\* The model class of payee string conditions: the two fields every entity
\* record carries.
PayeeStringConditionFields == {"entityId", "entityVersion"}

\* The pydantic model classes of models.py: all fields, and the fields
\* without a default (a missing one makes the constructor raise).
ModelFields(model) ==
    CASE model = "Account" ->
           {"entityId", "accountName", "accountType", "onBudget",
            "sortableIndex", "hidden", "entityVersion"}
      [] model = "Payee" -> {"entityId", "name", "enabled", "entityVersion"}
      [] model = "Transaction" ->
           {"entityId", "accountId", "payeeId", "amount", "date", "cleared",
            "accepted", "entityVersion", "memo"}
      [] model = "MasterCategory" ->
           {"entityId", "name", "type", "deleteable", "expanded",
            "sortableIndex", "entityVersion"}
      [] model = "Category" ->
           {"entityId", "name", "type", "masterCategoryId", "sortableIndex",
            "entityVersion", "cachedBalance"}
      [] model = "MonthlyBudget" ->
           {"entityId", "month", "entityVersion", "monthlySubCategoryBudgets"}
      [] model = "MonthlyCategoryBudget" ->
           {"entityId", "entityVersion", "categoryId", "parentMonthlyBudgetId",
            "budgeted", "overspendingHandling", "note"}
      [] model = "ScheduledTransaction" ->
           {"entityId", "frequency", "amount", "entityVersion", "payeeId",
            "accountId", "date"}
      [] model = "PayeeStringCondition" -> PayeeStringConditionFields

OptionalFields(model) ==
    CASE model = "Transaction" -> {"payeeId", "memo"}
      [] model = "Category" -> {"cachedBalance"}
      [] model = "MonthlyBudget" -> {"monthlySubCategoryBudgets"}
      [] model = "MonthlyCategoryBudget" -> {"overspendingHandling", "note"}
      [] model = "ScheduledTransaction" -> {"payeeId", "accountId", "date"}
      [] OTHER -> {}

\* model(**data): extra keys are ignored (extra="ignore"), an optional field
\* that is not given is None, a required field that is not given is a
\* ValidationError (ok = FALSE).  The values given are taken to be valid for
\* the declared field types.
NewModel(model, data) ==
    IF (ModelFields(model) \ OptionalFields(model)) \subseteq DOMAIN data
    THEN [ok |-> TRUE,
          entity |-> [f \in ModelFields(model) |->
                         IF f \in DOMAIN data THEN data[f] ELSE None]]
    ELSE [ok |-> FALSE, entity |-> <<>>]

\* dict.update: the keys of b override those of a
DictUpdate(a, b) ==
    [k \in (DOMAIN a) \cup (DOMAIN b) |-> IF k \in DOMAIN b THEN b[k] ELSE a[k]]

\* del d[k]
DictDel(d, k) == [j \in (DOMAIN d) \ {k} |-> d[j]]

\* d[k] = v
DictSet(d, k, v) == [j \in (DOMAIN d) \cup {k} |-> IF j = k THEN v ELSE d[j]]

\* The nine entity dicts of the parser, by attribute name.
CollectionNames ==
    {"accounts", "payees", "transactions", "master_categories", "categories",
     "monthly_budgets", "monthly_category_budgets", "scheduled_transactions",
     "payee_string_conditions"}

EmptyCollections == [c \in CollectionNames |-> <<>>]

\* entity type -> (collection, model class); (None, None) for any other type
_get_entity_mapping(entity_type) ==
    CASE entity_type = "account" -> <<"accounts", "Account">>
      [] entity_type = "payee" -> <<"payees", "Payee">>
      [] entity_type = "payeeStringCondition" ->
           <<"payee_string_conditions", "PayeeStringCondition">>
      [] entity_type = "transaction" -> <<"transactions", "Transaction">>
      [] entity_type = "masterCategory" -> <<"master_categories", "MasterCategory">>
      [] entity_type = "category" -> <<"categories", "Category">>
      [] entity_type = "monthlyBudget" -> <<"monthly_budgets", "MonthlyBudget">>
      [] entity_type = "monthlyCategoryBudget" ->
           <<"monthly_category_budgets", "MonthlyCategoryBudget">>
      [] entity_type = "scheduledTransaction" ->
           <<"scheduled_transactions", "ScheduledTransaction">>
      [] OTHER -> <<None, None>>

\* Variants of the comparison: not strict, inverted, any difference.
version_is_newer_or_equal(new_version_num, existing_version_num) ==
    new_version_num >= existing_version_num

version_is_older(new_version_num, existing_version_num) ==
    new_version_num < existing_version_num

version_differs(new_version_num, existing_version_num) ==
    new_version_num # existing_version_num

\* if new_version_num > existing_version_num
version_is_newer(new_version_num, existing_version_num) ==
    new_version_num > existing_version_num

\* Variant: the stored values override the record's.
merge_item_under(model, existing_entity, item) ==
    NewModel(model, DictUpdate(item, existing_entity))

\* updated_data = existing_entity.model_dump(); updated_data.update(item);
\* model(**updated_data)
merge_item_into(model, existing_entity, item) ==
    NewModel(model, DictUpdate(existing_entity, item))

\* Variant: the tombstone deletes nothing.
apply_tombstone_kept(colls, cname, entity_id) == colls

\* if item["isTombstone"]: delete the entity when it is there
apply_tombstone(colls, cname, entity_id) ==
    IF entity_id \in DOMAIN colls[cname]
    THEN [colls EXCEPT ![cname] = DictDel(colls[cname], entity_id)]
    ELSE colls

\* The outcome of one pass of the loop body of _apply_delta.
Step(colls, err, warned) == [colls |-> colls, err |-> err, warned |-> warned]

\* Variant: an unknown type ends the call with an error.
unknown_type_raises(colls) == Step(colls, "ValueError", FALSE)

\* if collection is None: logging.warning(...); continue
skip_unknown_type(colls) == Step(colls, "", TRUE)

\* One pass of the loop body of _apply_delta for one item: the collections
\* afterwards, the exception that ends the call ("" when there is none) and
\* whether logging.warning was called.
apply_item(colls, item) ==
    IF "entityId" \notin DOMAIN item \/ "entityType" \notin DOMAIN item
    THEN Step(colls, "KeyError", FALSE)
    ELSE
    LET entity_id == item["entityId"]
        mapping == _get_entity_mapping(item["entityType"])
        cname == mapping[1]
        model == mapping[2]
    IN
    IF cname = None THEN skip_unknown_type(colls)
    ELSE IF "isTombstone" \notin DOMAIN item THEN Step(colls, "KeyError", FALSE)
    ELSE IF item["isTombstone"]
    THEN Step(apply_tombstone(colls, cname, entity_id), "", FALSE)
    ELSE IF entity_id \in DOMAIN colls[cname]
    THEN LET existing_entity == colls[cname][entity_id] IN
         The({
         IF ~existing_version.ok THEN Step(colls, "ValueError", FALSE)
         ELSE IF "entityVersion" \notin DOMAIN item
         THEN Step(colls, "KeyError", FALSE)
         ELSE The({
              IF ~new_version.ok THEN Step(colls, "ValueError", FALSE)
              ELSE IF version_is_newer(new_version.version_num,
                                       existing_version.version_num)
              THEN The({ IF m.ok
                         THEN Step([colls EXCEPT ![cname] =
                                       DictSet(colls[cname], entity_id, m.entity)],
                                   "", FALSE)
                         ELSE Step(colls, "ValidationError", FALSE)
                         : m \in {merge_item_into(model, existing_entity, item)} })
              ELSE Step(colls, "", FALSE)
              : new_version \in {_get_version_number_from_composite(
                                     item["entityVersion"])} })
         : existing_version \in {_get_version_number_from_composite(
                                     existing_entity["entityVersion"])} })
    ELSE The({ IF m.ok
               THEN Step([colls EXCEPT ![cname] =
                             DictSet(colls[cname], entity_id, m.entity)],
                         "", FALSE)
               ELSE Step(colls, "ValidationError", FALSE)
               : m \in {NewModel(model, item)} })

\* The loop of _apply_delta over the items of one file, as the log of its
\* passes: item, collections before and after, exception, warning.  The loop
\* ends with the first pass that raises.
RECURSIVE apply_items(_, _)
apply_items(colls, items) ==
    IF items = <<>> THEN <<>>
    ELSE The({
         LET entry == [item |-> Head(items), before |-> colls,
                       after |-> r.colls, err |-> r.err, warned |-> r.warned]
         IN
         IF r.err # "" THEN <<entry>>
         ELSE <<entry>> \o apply_items(r.colls, Tail(items))
         : r \in {apply_item(colls, Head(items))} })

\* _apply_delta(delta_file): the collections after the call and the
\* exception it ends with ("" when it returns), with the log of its passes.
_apply_delta(colls, items) == The({
    [colls |-> IF log = <<>> THEN colls ELSE log[Len(log)].after,
     err |-> IF log = <<>> THEN "" ELSE log[Len(log)].err,
     log |-> log]
    : log \in {apply_items(colls, items)} })

\* str.endswith(suffix)
EndsWith(s, suffix) ==
    /\ Len(s) >= Len(suffix)
    /\ SubSeq(s, Len(s) - Len(suffix) + 1, Len(s)) = suffix

YdiffSuffix == <<".", "y", "d", "i", "f", "f">>

\* _parse_delta_versions(filename): '<start>_<end>.ydiff'
_parse_delta_versions(filename) ==
    IF ~EndsWith(filename, YdiffSuffix)
    THEN [ok |-> FALSE, start_version |-> <<>>, end_version |-> <<>>]
    ELSE LET base_name == SubSeq(filename, 1, Len(filename) - 6)
             parts == Split(base_name, "_")
         IN IF Len(parts) # 2
            THEN [ok |-> FALSE, start_version |-> <<>>, end_version |-> <<>>]
            ELSE [ok |-> TRUE, start_version |-> parts[1],
                  end_version |-> parts[2]]

\* Variant: the counter of the first token of the start of the range.
_get_delta_sort_key_first_token(filename) == The({
    IF ~v.ok THEN [ok |-> FALSE, version_num |-> 0]
    ELSE [ok |-> parse_composite_knowledge_string(v.start_version).ok,
          version_num |-> parse_version_string(
                              Split(v.start_version, ",")[1]).version_num]
    : v \in {_parse_delta_versions(filename)} })

\* _get_delta_sort_key(delta_path): the counter of the start of the range
_get_delta_sort_key(filename) == The({
    IF ~v.ok THEN [ok |-> FALSE, version_num |-> 0]
    ELSE _get_version_number_from_composite(v.start_version)
    : v \in {_parse_delta_versions(filename)} })

\* _get_version_end_number(delta_path): the counter of the end of the range
_get_version_end_number(filename) == The({
    IF ~v.ok THEN [ok |-> FALSE, version_num |-> 0]
    ELSE _get_version_number_from_composite(v.end_version)
    : v \in {_parse_delta_versions(filename)} })

\* sorted(files, key=...): a stable sort, files of equal key keep the order
\* of the directory listing
RECURSIVE InsertByKey(_, _)
InsertByKey(sorted, f) ==
    IF sorted = <<>> THEN <<f>>
    ELSE LET l == sorted[Len(sorted)] IN
         IF _get_delta_sort_key(l.name).version_num
                <= _get_delta_sort_key(f.name).version_num
         THEN Append(sorted, f)
         ELSE Append(InsertByKey(SubSeq(sorted, 1, Len(sorted) - 1), f), l)

RECURSIVE SortedByKey(_)
SortedByKey(files) ==
    IF files = <<>> THEN <<>>
    ELSE InsertByKey(SortedByKey(SubSeq(files, 1, Len(files) - 1)),
                     files[Len(files)])

\* _discover_delta_files(): the listed files ordered by sort key; a file
\* name that does not parse makes the call raise ValueError (ok = FALSE)
_discover_delta_files(listing) ==
    IF \E i \in 1..Len(listing) : ~_get_delta_sort_key(listing[i].name).ok
    THEN [ok |-> FALSE, files |-> <<>>]
    ELSE [ok |-> TRUE, files |-> SortedByKey(listing)]

\* The parser object: its collections, applied_deltas and _base_state.
ParserState(colls, applied, base) ==
    [collections |-> colls, applied_deltas |-> applied, base_state |-> base]

Outcome(st, err) == [st |-> st, err |-> err]

\* The loop of apply_deltas over the discovered files: a file is appended
\* to applied_deltas after _apply_delta returned.
RECURSIVE apply_each(_, _)
apply_each(st, files) ==
    IF files = <<>> THEN Outcome(st, "")
    ELSE The({
         IF r.err # ""
         THEN Outcome([st EXCEPT !.collections = r.colls], r.err)
         ELSE apply_each([st EXCEPT !.collections = r.colls,
                             !.applied_deltas = Append(@, Head(files).name)],
                         Tail(files))
         : r \in {_apply_delta(st.collections, Head(files).items)} })

\* apply_deltas()
apply_deltas(st, listing) == The({
    IF ~d.ok THEN Outcome(st, "ValueError") ELSE apply_each(st, d.files)
    : d \in {_discover_delta_files(listing)} })

\* if end_version <= target_version
within_target(end_version, target_version) == end_version <= target_version

\* The loop of _apply_deltas_up_to_version: it ends at the first file whose
\* end version is beyond the target.
RECURSIVE apply_each_up_to(_, _, _)
apply_each_up_to(st, files, target_version) ==
    IF files = <<>> THEN Outcome(st, "")
    ELSE The({
         IF ~end_version.ok THEN Outcome(st, "ValueError")
         ELSE IF within_target(end_version.version_num, target_version)
         THEN The({
              IF r.err # ""
              THEN Outcome([st EXCEPT !.collections = r.colls], r.err)
              ELSE apply_each_up_to(
                       [st EXCEPT !.collections = r.colls,
                           !.applied_deltas = Append(@, Head(files).name)],
                       Tail(files), target_version)
              : r \in {_apply_delta(st.collections, Head(files).items)} })
         ELSE Outcome(st, "")
         : end_version \in {_get_version_end_number(Head(files).name)} })

\* _apply_deltas_up_to_version(target_version)
_apply_deltas_up_to_version(st, listing, target_version) == The({
    IF ~d.ok THEN Outcome(st, "ValueError")
    ELSE apply_each_up_to(st, d.files, target_version)
    : d \in {_discover_delta_files(listing)} })

\* data.get(key, [])
GetList(data, key) == IF key \in DOMAIN data THEN data[key] ELSE <<>>

\* _parse_entities(entity_data_list, model_class, collection): the dict
\* afterwards; a record the model rejects ends the call (ValidationError)
RECURSIVE _parse_entities(_, _, _)
_parse_entities(entity_data_list, model, collection) ==
    IF entity_data_list = <<>> THEN [collection |-> collection, err |-> ""]
    ELSE The({
         IF ~m.ok THEN [collection |-> collection, err |-> "ValidationError"]
         ELSE _parse_entities(Tail(entity_data_list), model,
                              DictSet(collection, m.entity["entityId"], m.entity))
         : m \in {NewModel(model, Head(entity_data_list))} })

\* _parse_master_categories: the nested subCategories go to categories, the
\* master category is built without them
RECURSIVE _parse_master_categories(_, _)
_parse_master_categories(master_categories_data, colls) ==
    IF master_categories_data = <<>> THEN [colls |-> colls, err |-> ""]
    ELSE LET data == Head(master_categories_data)
             clean == DictDel(data, "subCategories")
         IN
         The({
         IF cats.err # ""
         THEN [colls |-> [colls EXCEPT !["categories"] = cats.collection],
               err |-> cats.err]
         ELSE The({
              IF ~m.ok
              THEN [colls |-> [colls EXCEPT !["categories"] = cats.collection],
                    err |-> "ValidationError"]
              ELSE _parse_master_categories(
                       Tail(master_categories_data),
                       [colls EXCEPT
                           !["categories"] = cats.collection,
                           !["master_categories"] =
                               DictSet(@, m.entity["entityId"], m.entity)])
              : m \in {NewModel("MasterCategory", clean)} })
         : cats \in {_parse_entities(GetList(data, "subCategories"),
                                     "Category", colls["categories"])} })

\* The simple entity arrays of Budget.yfull in the order they are parsed.
SimpleArrays ==
    << <<"accounts", "Account", "accounts">>,
       <<"payees", "Payee", "payees">>,
       <<"transactions", "Transaction", "transactions">>,
       <<"monthlyBudgets", "MonthlyBudget", "monthly_budgets">>,
       <<"monthlyCategoryBudgets", "MonthlyCategoryBudget",
         "monthly_category_budgets">>,
       <<"scheduledTransactions", "ScheduledTransaction",
         "scheduled_transactions">> >>

RECURSIVE parse_simple_arrays(_, _, _)
parse_simple_arrays(data, colls, k) ==
    IF k > Len(SimpleArrays) THEN [colls |-> colls, err |-> ""]
    ELSE LET a == SimpleArrays[k] IN
         The({
         IF r.err # ""
         THEN [colls |-> [colls EXCEPT ![a[3]] = r.collection], err |-> r.err]
         ELSE parse_simple_arrays(data, [colls EXCEPT ![a[3]] = r.collection],
                                  k + 1)
         : r \in {_parse_entities(GetList(data, a[1]), a[2], colls[a[3]])} })

\* The snapshot part of _parse_with_delta_strategy: the records of
\* Budget.yfull are written into the collections the parser already holds.
parse_snapshot(data, colls) == The({
    IF r.err # "" THEN r
    ELSE _parse_master_categories(GetList(data, "masterCategories"), r.colls)
    : r \in {parse_simple_arrays(data, colls, 1)} })

\* _parse_with_delta_strategy with the strategy of parse(): apply_deltas()
parse(st, data, listing) == The({
    IF r.err # "" THEN Outcome([st EXCEPT !.collections = r.colls], r.err)
    ELSE apply_deltas([st EXCEPT !.collections = r.colls,
                                 !.base_state = r.colls], listing)
    : r \in {parse_snapshot(data, st.collections)} })

\* parse_up_to_version(target_version)
parse_up_to_version(st, data, listing, target_version) == The({
    IF r.err # "" THEN Outcome([st EXCEPT !.collections = r.colls], r.err)
    ELSE The({
         IF target_version > 0
         THEN _apply_deltas_up_to_version(st1, listing, target_version)
         ELSE Outcome(st1, "")
         : st1 \in {[st EXCEPT !.collections = r.colls,
                               !.base_state = r.colls]} })
    : r \in {parse_snapshot(data, st.collections)} })

\* sorted(versions) of a list of integers, duplicates kept
RECURSIVE InsertInt(_, _)
InsertInt(sorted, n) ==
    IF sorted = <<>> THEN <<n>>
    ELSE IF sorted[Len(sorted)] <= n THEN Append(sorted, n)
    ELSE Append(InsertInt(SubSeq(sorted, 1, Len(sorted) - 1), n),
                sorted[Len(sorted)])

RECURSIVE SortedInts(_)
SortedInts(ns) ==
    IF ns = <<>> THEN <<>>
    ELSE InsertInt(SortedInts(SubSeq(ns, 1, Len(ns) - 1)), ns[Len(ns)])

\* get_available_versions(): sorted([0] + the end version of each file);
\* ok = FALSE when a file name does not parse (ValueError)
get_available_versions(listing) == The({
    IF ~d.ok THEN [ok |-> FALSE, versions |-> <<>>]
    ELSE The({
         IF \E i \in 1..Len(ends) : ~ends[i].ok
         THEN [ok |-> FALSE, versions |-> <<>>]
         ELSE [ok |-> TRUE,
               versions |-> SortedInts(<<0>> \o
                   [i \in 1..Len(ends) |-> ends[i].version_num])]
         : ends \in {[i \in 1..Len(d.files) |->
                        _get_version_end_number(d.files[i].name)]} })
    : d \in {_discover_delta_files(listing)} })

\* Variant: only a negative target is rejected.
_validate_target_version_non_negative(listing, target_version) ==
    IF target_version < 0 THEN "ValueError" ELSE ""

\* _validate_target_version(target_version): "" or the ValueError
_validate_target_version(listing, target_version) ==
    IF target_version < 0 THEN "ValueError"
    ELSE The({
         IF ~available_versions.ok THEN "ValueError"
         ELSE IF \A i \in 1..Len(available_versions.versions) :
                     available_versions.versions[i] # target_version
         THEN "ValueError"
         ELSE ""
         : available_versions \in {get_available_versions(listing)} })

\* restore_to_version(target_version)
restore_to_version(st, listing, target_version) ==
    IF _validate_target_version(listing, target_version) # ""
    THEN Outcome(st, "ValueError")
    ELSE IF st.base_state = <<>> THEN Outcome(st, "KeyError")
    ELSE The({
         IF target_version = 0 THEN Outcome(st1, "")
         ELSE _apply_deltas_up_to_version(st1, listing, target_version)
         : st1 \in {[st EXCEPT !.collections = st.base_state,
                               !.applied_deltas = <<>>]} })

(***************************************************************************)
(* State                                                                   *)
(***************************************************************************)
VARIABLES
    collections,     \* the nine entity dicts of the parser
    applied_deltas,  \* self.applied_deltas
    base_state,      \* self._base_state, <<>> while it is the empty dict
    yfull,           \* Budget.yfull of the active device: its entity records
    ydiffs,          \* the .ydiff files, in the order the directory lists them
    last,            \* the last parser call: name, argument, outcome
    delta,           \* the content of a change file handed to _apply_delta
    history,         \* the consecutive _apply_delta calls on delta, oldest first
    devices,         \* the .ydevice files, in the order the directory lists them
    call,            \* the last DeviceManager call: name, arguments, result
    devices_dir,     \* whether data1~*/devices exists
    create_backups,  \* DeviceManager.create_backups
    backups,         \* the '.ydevice.backup_<timestamp>' files of the devices directory
    temps,           \* the '.ydevice.tmp' files of the devices directory
    clock,           \* datetime.now(), in seconds
    lock,            \* the caller that holds budget.lock, 0 while it is free
    pc,              \* where each caller of LockManager is
    waited,          \* how long each caller has waited in acquire()
    raised,          \* the exception in flight in each caller, "" for none
    device_dirs,     \* the device directories of data1~*, in the order it lists them
    known            \* the knowledge each caller has read inside its with block

writer_vars == <<devices_dir, create_backups, backups, temps, clock>>

lock_vars == <<lock, pc, waited, raised>>

budget_vars == <<device_dirs, known>>

vars == <<collections, applied_deltas, base_state, yfull, ydiffs, last,
          delta, history, devices, call, writer_vars, lock_vars,
          budget_vars>>

\* Nothing has been written: no backup and no temporary file is on disk.
NoWriter ==
    /\ devices_dir = TRUE
    /\ create_backups = FALSE
    /\ backups = {}
    /\ temps = {}
    /\ clock = 0

\* No LockManager has been constructed.
NoLock ==
    /\ lock = 0
    /\ pc = <<>>
    /\ waited = <<>>
    /\ raised = <<>>

\* One device directory, the one ydiffs lists, and no caller of LockManager
\* that reads the budget.
NoBudget ==
    /\ device_dirs = <<>>
    /\ known = <<>>

\* No DeviceManager call has been made.
NoCall == [op |-> "none", args |-> <<>>, result |-> <<>>]

(***************************************************************************)
(* Change records and starting collections of the merge specification      *)
(***************************************************************************)
MaxItems == 2
MaxApplications == 2

VA1 == <<"A", "-", "1">>
VB2 == <<"B", "-", "2">>
VC3 == <<"A", "-", "1", ",", "B", "-", "3">>
VBad == <<"A", "-">>

MergeVersions == {VA1, VB2, VC3}

TxnFull(id, v) ==
    [entityId |-> id, entityType |-> "transaction", isTombstone |-> FALSE,
     entityVersion |-> v, accountId |-> "acct1", amount |-> "100",
     date |-> "2025-01-01", cleared |-> "Uncleared", accepted |-> TRUE]

TxnPatchAmount(id, v) ==
    [entityId |-> id, entityType |-> "transaction", isTombstone |-> FALSE,
     entityVersion |-> v, amount |-> "200"]

TxnPatchMemo(id, v) ==
    [entityId |-> id, entityType |-> "transaction", isTombstone |-> FALSE,
     entityVersion |-> v, memo |-> "note"]

Tombstone(id, type, v) ==
    [entityId |-> id, entityType |-> type, isTombstone |-> TRUE,
     entityVersion |-> v]

UnknownItem(id, v) ==
    [entityId |-> id, entityType |-> "unknownType", isTombstone |-> FALSE,
     entityVersion |-> v, someField |-> "someValue"]

MergeItems ==
    {TxnFull("e1", v) : v \in MergeVersions \cup {VBad}}
    \cup {TxnPatchAmount("e1", v) : v \in MergeVersions}
    \cup {TxnPatchMemo("e1", v) : v \in MergeVersions}
    \cup {Tombstone("e1", "transaction", VA1), Tombstone("e2", "transaction", VC3),
          UnknownItem("e1", VC3)}

StoredTxn(id, v, amount, memo) ==
    [entityId |-> id, accountId |-> "acct1", payeeId |-> None,
     amount |-> amount, date |-> "2025-01-01", cleared |-> "Uncleared",
     accepted |-> TRUE, entityVersion |-> v, memo |-> memo]

StoredPayee(id, v) ==
    [entityId |-> id, name |-> "Shop", enabled |-> TRUE, entityVersion |-> v]

StartCollections ==
    {[EmptyCollections EXCEPT
        !["transactions"] = t,
        !["payees"] = [i \in {"p1"} |-> StoredPayee("p1", VA1)]] :
     t \in {[i \in {"e2"} |-> StoredTxn("e2", VA1, "70", None)],
            [i \in {"e1", "e2"} |->
                IF i = "e1" THEN StoredTxn("e1", VB2, "50", "orig")
                ELSE StoredTxn("e2", VA1, "70", None)]}}

(***************************************************************************)
(* Merge specification: change files handed directly to _apply_delta       *)
(***************************************************************************)
MergeInit ==
    /\ collections \in StartCollections
    /\ applied_deltas = <<>>
    /\ base_state = <<>>
    /\ yfull = <<>>
    /\ ydiffs = <<>>
    /\ last = [op |-> "init", target |-> 0, err |-> "", restored |-> -1]
    /\ delta = <<>>
    /\ history = <<>>
    /\ devices = <<>>
    /\ call = NoCall
    /\ NoWriter
    /\ NoLock
    /\ NoBudget

\* The file is written, one record at a time, before it is first applied.
WriteItem(item) ==
    /\ history = <<>>
    /\ Len(delta) < MaxItems
    /\ delta' = Append(delta, item)
    /\ UNCHANGED <<collections, applied_deltas, base_state, yfull, ydiffs,
                   last, history, devices, call,
                   writer_vars, lock_vars, budget_vars>>

\* parser._apply_delta(delta_file), the whole call
ApplyDelta ==
    /\ Len(history) < MaxApplications
    /\ \E r \in {_apply_delta(collections, delta)} :
       /\ collections' = r.colls
       /\ history' = Append(history, [before |-> collections, after |-> r.colls,
                                      err |-> r.err, log |-> r.log])
    /\ UNCHANGED <<applied_deltas, base_state, yfull, ydiffs, last, delta,
                   devices, call,
                   writer_vars, lock_vars, budget_vars>>

\* Another file takes the place of the one applied.
NewDelta ==
    /\ history # <<>>
    /\ delta' = <<>>
    /\ history' = <<>>
    /\ UNCHANGED <<collections, applied_deltas, base_state, yfull, ydiffs, last,
                   devices, call,
                   writer_vars, lock_vars, budget_vars>>

MergeNext ==
    \/ \E item \in MergeItems : WriteItem(item)
    \/ ApplyDelta
    \/ NewDelta

MergeSpec == MergeInit /\ [][MergeNext]_vars

\* Records that tie with the stored version on the counter, and records
\* that lack one of the fields every record is to carry.
RecordItems ==
    {TxnPatchAmount("e1", <<"C", "-", "2">>),
     TxnPatchAmount("e1", <<"A", "-", "2">>),
     TxnPatchMemo("e2", <<"A", "-", "1", ",", "B", "-", "1">>),
     Tombstone("e1", "transaction", VA1),
     [entityId |-> "e2", entityType |-> "transaction", isTombstone |-> TRUE],
     [entityId |-> "e1", entityType |-> "unknownType"],
     [entityType |-> "transaction", isTombstone |-> FALSE,
      entityVersion |-> VA1],
     [entityId |-> "e3", entityType |-> "transaction", isTombstone |-> FALSE]}

RecordNext ==
    \/ \E item \in RecordItems : WriteItem(item)
    \/ ApplyDelta
    \/ NewDelta

RecordSpec == MergeInit /\ [][RecordNext]_vars

(***************************************************************************)
(* Vocabulary of the properties                                            *)
(***************************************************************************)
\* The closed set of entity type tags of the data model.
KnownTypes ==
    {"account", "payee", "transaction", "masterCategory", "category",
     "monthlyBudget", "monthlyCategoryBudget", "scheduledTransaction",
     "payeeStringCondition"}

RequiredItemKeys == {"entityId", "entityType", "entityVersion", "isTombstone"}

\* The version string is a token or a comma-separated list of tokens.
ValidVersion(v) == parse_composite_knowledge_string(v).ok

\* Effective version: the greatest counter among the tokens of the string.
EffectiveCounter(v) ==
    LET tokens == parse_composite_knowledge_string(v).versions
        counters == {tokens[i][2] : i \in 1..Len(tokens)}
    IN CHOOSE m \in counters : \A n \in counters : n <= m

CollectionOf(item) == _get_entity_mapping(item["entityType"])[1]

\* Every pass of every _apply_delta call recorded on the current file.
Passes == {history[n].log[i] : <<n, i>> \in
              {p \in (1..Len(history)) \X (1..MaxItems + 1) :
                   p[2] <= Len(history[p[1]].log)}}

\* A pass over an upsert record of a known type for an id that is stored.
IsUpdatePass(e) ==
    /\ RequiredItemKeys \subseteq DOMAIN e.item
    /\ e.item["entityType"] \in KnownTypes
    /\ ~e.item["isTombstone"]
    /\ e.item["entityId"] \in DOMAIN e.before[CollectionOf(e.item)]

StoredBefore(e) == e.before[CollectionOf(e.item)][e.item["entityId"]]

StrictlyNewer(e) ==
    /\ ValidVersion(e.item["entityVersion"])
    /\ ValidVersion(StoredBefore(e)["entityVersion"])
    /\ EffectiveCounter(e.item["entityVersion"])
           > EffectiveCounter(StoredBefore(e)["entityVersion"])

(***************************************************************************)
(* C1: last writer wins.  When _apply_delta processes an upsert record of  *)
(* a known type whose id is already stored, the stored entity changes only *)
(* if the record's effective version is strictly greater than the stored   *)
(* one; an older or equal record leaves every collection unchanged.        *)
(***************************************************************************)
C1_LastWriterWins ==
    \A e \in Passes :
        IsUpdatePass(e) /\ ~StrictlyNewer(e) => e.after = e.before

\* An equal-version record that carries a different value was processed.
C1_Witness ==
    \E e \in Passes :
        /\ IsUpdatePass(e)
        /\ e.err = ""
        /\ ValidVersion(e.item["entityVersion"])
        /\ ValidVersion(StoredBefore(e)["entityVersion"])
        /\ EffectiveCounter(e.item["entityVersion"])
               = EffectiveCounter(StoredBefore(e)["entityVersion"])
        /\ \E f \in DOMAIN e.item \cap DOMAIN StoredBefore(e) :
               e.item[f] # StoredBefore(e)[f]

(***************************************************************************)
(* C8: patch semantics.  A strictly newer record that carries a subset of  *)
(* the stored entity's fields yields an entity with the record's values    *)
(* for the fields it carries (entityVersion included) and the prior values *)
(* for every other field.                                                  *)
(***************************************************************************)
C8_PatchSemantics ==
    \A e \in Passes :
        IsUpdatePass(e) /\ StrictlyNewer(e) =>
            LET c == CollectionOf(e.item)
                id == e.item["entityId"]
            IN /\ id \in DOMAIN e.after[c]
               /\ \A f \in DOMAIN StoredBefore(e) :
                      e.after[c][id][f] =
                          IF f \in DOMAIN e.item THEN e.item[f]
                          ELSE StoredBefore(e)[f]

\* A newer record without a memo changed the amount of an entity whose memo
\* was set.
C8_Witness ==
    \E e \in Passes :
        /\ IsUpdatePass(e) /\ StrictlyNewer(e)
        /\ "memo" \notin DOMAIN e.item
        /\ "amount" \in DOMAIN e.item
        /\ StoredBefore(e)["memo"] # None
        /\ StoredBefore(e)["amount"] # e.item["amount"]
        /\ "accountId" \notin DOMAIN e.item

(***************************************************************************)
(* C9: a tombstone record removes the entity with its id from the          *)
(* collection of its type if it is there and is a no-op without error if   *)
(* it is not; no other entity and no other collection changes.             *)
(***************************************************************************)
IsTombstonePass(e) ==
    /\ RequiredItemKeys \subseteq DOMAIN e.item
    /\ e.item["entityType"] \in KnownTypes
    /\ e.item["isTombstone"]

C9_Tombstone ==
    \A e \in Passes :
        IsTombstonePass(e) =>
            LET c == CollectionOf(e.item)
                id == e.item["entityId"]
            IN /\ e.err = ""
               /\ DOMAIN e.after[c] = (DOMAIN e.before[c]) \ {id}
               /\ \A j \in DOMAIN e.after[c] : e.after[c][j] = e.before[c][j]
               /\ \A d \in CollectionNames \ {c} : e.after[d] = e.before[d]

\* One call removed a stored entity next to another one and met a tombstone
\* for an id that was not stored.
C9_Witness ==
    /\ \E e \in Passes :
           /\ IsTombstonePass(e)
           /\ e.item["entityId"] \in DOMAIN e.before[CollectionOf(e.item)]
           /\ Cardinality(DOMAIN e.before[CollectionOf(e.item)]) > 1
    /\ \E e \in Passes :
           /\ IsTombstonePass(e)
           /\ e.item["entityId"] \notin DOMAIN e.before[CollectionOf(e.item)]

(***************************************************************************)
(* C10: a record whose entityType is not one of the nine known types is    *)
(* skipped with a warning: no collection changes, nothing is raised, and   *)
(* the records after it in the file are still processed.                   *)
(***************************************************************************)
IsUnknownTypePass(e) ==
    /\ {"entityId", "entityType"} \subseteq DOMAIN e.item
    /\ e.item["entityType"] \notin KnownTypes

C10_UnknownTypeSkipped ==
    \A n \in 1..Len(history) :
        \A i \in 1..Len(history[n].log) :
            LET e == history[n].log[i] IN
            IsUnknownTypePass(e) =>
                /\ e.err = ""
                /\ e.warned
                /\ e.after = e.before
                /\ i < Len(delta) =>
                       /\ Len(history[n].log) > i
                       /\ history[n].log[i + 1].item = delta[i + 1]

\* An unknown-type record was followed by a record that changed the state.
C10_Witness ==
    \E n \in 1..Len(history) :
        /\ Len(history[n].log) = 2
        /\ IsUnknownTypePass(history[n].log[1])
        /\ history[n].log[2].after # history[n].log[2].before

PassesFor(h, c, id) ==
    {i \in 1..Len(h.log) :
        /\ RequiredItemKeys \subseteq DOMAIN h.log[i].item
        /\ h.log[i].item["entityId"] = id
        /\ CollectionOf(h.log[i].item) = c
        /\ ValidVersion(h.log[i].item["entityVersion"])}

StoredValid(colls, c, id) ==
    /\ id \in DOMAIN colls[c]
    /\ ValidVersion(colls[c][id]["entityVersion"])

StoredCounter(colls, c, id) == EffectiveCounter(colls[c][id]["entityVersion"])

\* The statement as claimed: violated when a tombstone is followed by an
\* upsert of an older version.
C2_MonotoneAllSeen ==
    \A n \in 1..Len(history) :
        LET h == history[n] IN
        \A c \in CollectionNames :
            \A id \in DOMAIN h.after[c] :
                StoredValid(h.after, c, id) =>
                    /\ \A i \in PassesFor(h, c, id) :
                           StoredCounter(h.after, c, id) >=
                               EffectiveCounter(h.log[i].item["entityVersion"])
                    /\ StoredValid(h.before, c, id) =>
                           StoredCounter(h.after, c, id) >=
                               StoredCounter(h.before, c, id)

\* The last tombstone pass of fold h for the entity, 0 when there is none.
LastTombstone(h, c, id) ==
    LET ts == {i \in PassesFor(h, c, id) : h.log[i].item["isTombstone"]} IN
    IF ts = {} THEN 0 ELSE CHOOSE i \in ts : \A j \in ts : j <= i

\* Amended: the stored version is >= the version of every upsert record for
\* the id processed after the last tombstone for the id, and >= the
\* snapshot's version of the id when the fold has no tombstone for it.
C2_MonotoneSinceTombstone ==
    \A n \in 1..Len(history) :
        LET h == history[n] IN
        \A c \in CollectionNames :
            \A id \in DOMAIN h.after[c] :
                StoredValid(h.after, c, id) =>
                    /\ \A i \in PassesFor(h, c, id) :
                           i > LastTombstone(h, c, id) =>
                               StoredCounter(h.after, c, id) >=
                                   EffectiveCounter(h.log[i].item["entityVersion"])
                    /\ LastTombstone(h, c, id) = 0
                         /\ StoredValid(h.before, c, id) =>
                           StoredCounter(h.after, c, id) >=
                               StoredCounter(h.before, c, id)

\* A fold deleted a stored entity and re-inserted it from a record older
\* than the version the snapshot held.
C2_Witness ==
    \E n \in 1..Len(history) :
        LET h == history[n] IN
        /\ Len(h.log) = 2
        /\ h.log[2].err = ""
        /\ PassesFor(h, "transactions", "e1") = {1, 2}
        /\ LastTombstone(h, "transactions", "e1") = 1
        /\ StoredValid(h.before, "transactions", "e1")
        /\ StoredValid(h.after, "transactions", "e1")
        /\ StoredCounter(h.after, "transactions", "e1")
               < StoredCounter(h.before, "transactions", "e1")

(***************************************************************************)
(* Budgets on disk of the parser specification                             *)
(***************************************************************************)
MaxFiles == 2
MaxApplied == 4
MaxTarget == 4

VA2 == <<"A", "-", "2">>
VA3 == <<"A", "-", "3">>
VA4 == <<"A", "-", "4">>
VA1B1 == <<"A", "-", "1", ",", "B", "-", "1">>

\* '<start>_<end>.ydiff'
YdiffName(start, end) == start \o <<"_">> \o end \o YdiffSuffix

\* The change files a device directory may hold.
FilePool ==
    {[name |-> YdiffName(VA1, VA2),
      items |-> <<TxnPatchAmount("e1", VA2), TxnFull("e3", VA2)>>],
     [name |-> YdiffName(VA2, VA3),
      items |-> <<Tombstone("e1", "transaction", VA3),
                  TxnPatchMemo("e3", VA3)>>],
     [name |-> YdiffName(VA1B1, VA4),
      items |-> <<TxnFull("e4", VA4), UnknownItem("u1", VA4),
                  Tombstone("e3", "transaction", VA4)>>],
     [name |-> YdiffName(VC3, VA4),
      items |-> <<TxnPatchAmount("e1", VA4)>>]}

\* Directory listings: files of distinct names in any order.
RECURSIVE Listings(_)
Listings(n) ==
    IF n = 0 THEN {<<>>}
    ELSE LET shorter == Listings(n - 1) IN
         shorter \cup
         {Append(l, f) : <<l, f>> \in
             {p \in shorter \X FilePool :
                 /\ Len(p[1]) = n - 1
                 /\ \A i \in 1..Len(p[1]) : p[1][i].name # p[2].name}}

StoredCategory(id, v) ==
    [entityId |-> id, name |-> "Rent", type |-> "OUTFLOW",
     masterCategoryId |-> "m1", sortableIndex |-> "0", entityVersion |-> v]

\* Budget.yfull documents.
Snapshots ==
    {[transactions |-> <<StoredTxn("e1", VA1, "50", "orig"),
                         StoredTxn("e2", VA1, "70", None)>>,
      payees |-> <<StoredPayee("p1", VA1)>>,
      masterCategories |->
          <<[entityId |-> "m1", name |-> "Bills", type |-> "OUTFLOW",
             deleteable |-> TRUE, expanded |-> TRUE, sortableIndex |-> "0",
             entityVersion |-> VA1,
             subCategories |-> <<StoredCategory("c1", VA1)>>]>>],
     [transactions |-> <<StoredTxn("e2", VA1, "70", None)>>]}

(***************************************************************************)
(* Parser specification: one parser object over one budget on disk         *)
(***************************************************************************)
Init ==
    /\ collections = EmptyCollections
    /\ applied_deltas = <<>>
    /\ base_state = <<>>
    /\ yfull \in Snapshots
    /\ ydiffs \in Listings(MaxFiles)
    /\ last = [op |-> "init", target |-> 0, err |-> "", restored |-> -1]
    /\ delta = <<>>
    /\ history = <<>>
    /\ devices = <<>>
    /\ call = NoCall
    /\ NoWriter
    /\ NoLock
    /\ NoBudget

Parser == ParserState(collections, applied_deltas, base_state)

\* The parser object after a call, with the record of the call.  restored
\* is the target of the call when it is a restore_to_version that returned,
\* and -1 otherwise.
Becomes(r, op, target) ==
    /\ collections' = r.st.collections
    /\ applied_deltas' = r.st.applied_deltas
    /\ base_state' = r.st.base_state
    /\ last' = [op |-> op, target |-> target, err |-> r.err,
                restored |-> IF last.op = "restore_to_version" /\ last.err = ""
                             THEN last.target ELSE -1]
    /\ UNCHANGED <<yfull, ydiffs, delta, history, devices, call,
                   writer_vars, lock_vars, budget_vars>>

Parse ==
    /\ Len(applied_deltas) + Len(ydiffs) <= MaxApplied
    /\ Becomes(parse(Parser, yfull, ydiffs), "parse", 0)

ParseUpToVersion(target_version) ==
    /\ Len(applied_deltas) + Len(ydiffs) <= MaxApplied
    /\ Becomes(parse_up_to_version(Parser, yfull, ydiffs, target_version),
               "parse_up_to_version", target_version)

ApplyDeltas ==
    /\ Len(applied_deltas) + Len(ydiffs) <= MaxApplied
    /\ Becomes(apply_deltas(Parser, ydiffs), "apply_deltas", 0)

RestoreToVersion(target_version) ==
    Becomes(restore_to_version(Parser, ydiffs, target_version),
            "restore_to_version", target_version)

Next ==
    \/ Parse
    \/ \E v \in -1..MaxTarget : ParseUpToVersion(v)
    \/ ApplyDeltas
    \/ \E v \in -1..MaxTarget : RestoreToVersion(v)

Spec == Init /\ [][Next]_vars

(***************************************************************************)
(* Replay from the snapshot on a fresh parser                              *)
(***************************************************************************)
FreshParser == ParserState(EmptyCollections, <<>>, <<>>)

\* The parser a new YnabParser of the same budget is after
\* parse_up_to_version(target_version).
FreshReplay(target_version) ==
    parse_up_to_version(FreshParser, yfull, ydiffs, target_version).st

\* The entities of Budget.yfull, loaded into empty collections.
SnapshotCollections == parse_snapshot(yfull, EmptyCollections).colls

Discovered == _discover_delta_files(ydiffs).files

EndNumber(filename) == _get_version_end_number(filename).version_num

(***************************************************************************)
(* C3: replay restarts from the snapshot.  restore_to_version(N) followed  *)
(* by restore_to_version(M), M < N, leaves the parser with the collections *)
(* and applied_deltas of a replay to M from the snapshot on a fresh parser.*)
(***************************************************************************)
C3_RestoreRestartsFromSnapshot ==
    /\ last.op = "restore_to_version"
    /\ last.err = ""
    /\ last.restored > last.target
    => /\ collections = FreshReplay(last.target).collections
       /\ applied_deltas = FreshReplay(last.target).applied_deltas

(***************************************************************************)
(* C4: parse_up_to_version(M) on a parser that has replayed before yields  *)
(* the collections and applied_deltas of parse_up_to_version(M) on a fresh *)
(* parser of the same budget.                                              *)
(***************************************************************************)
C4_ParseUpToRestartsFromSnapshot ==
    /\ last.op = "parse_up_to_version"
    /\ last.err = ""
    /\ last.target >= 0
    => /\ collections = FreshReplay(last.target).collections
       /\ applied_deltas = FreshReplay(last.target).applied_deltas

(***************************************************************************)
(* C5: a replay to target version 0 applies no change file: after          *)
(* parse_up_to_version(0) and after restore_to_version(0), applied_deltas  *)
(* is empty and the collections hold exactly the entities of Budget.yfull. *)
(***************************************************************************)
C5_TargetZeroIsSnapshot ==
    /\ last.op \in {"parse_up_to_version", "restore_to_version"}
    /\ last.err = ""
    /\ last.target = 0
    => /\ applied_deltas = <<>>
       /\ collections = SnapshotCollections

(***************************************************************************)
(* C6: a replay to target version T applies the change files in discovered *)
(* order and stops before the first file whose end version exceeds T:      *)
(* every file in applied_deltas has end version <= T, applied_deltas is a  *)
(* prefix of the discovered order, and the file after that prefix, if      *)
(* there is one, has an end version greater than T.                        *)
(***************************************************************************)
C6_ReplayIsBoundedPrefix ==
    /\ last.op \in {"parse_up_to_version", "restore_to_version"}
    /\ last.err = ""
    /\ last.target >= 0
    => /\ \A i \in 1..Len(applied_deltas) :
              EndNumber(applied_deltas[i]) <= last.target
       /\ Len(applied_deltas) <= Len(Discovered)
       /\ \A i \in 1..Len(applied_deltas) :
              applied_deltas[i] = Discovered[i].name
       /\ Len(applied_deltas) < Len(Discovered) =>
              EndNumber(Discovered[Len(applied_deltas) + 1].name) > last.target

(***************************************************************************)
(* Device specification: DeviceManager over the devices directory          *)
(***************************************************************************)
MaxDevices == 2
MaxParts == 2
MaxEntries == 3

YdeviceFile(name, data) == [name |-> name, valid_json |-> TRUE, data |-> data]

\* The .ydevice files a devices directory may hold: records with GUID and
\* knowledge, a record without knowledge, one without GUID, one whose
\* knowledge is malformed, and a file that is not valid JSON.
DevicePool ==
    LET K_A50 == <<"A", "-", "5", "0">>
        K_B75 == <<"B", "-", "7", "5">>
        K_A75 == <<"A", "-", "7", "5">>
        K_A80C9 == <<"A", "-", "8", "0", ",", "C", "-", "9">>
        K_Bad == <<"x">>
    IN
    {YdeviceFile("A", [deviceGUID |-> "guid-A", knowledge |-> K_A50]),
     YdeviceFile("B", [deviceGUID |-> "guid-B", knowledge |-> K_B75]),
     YdeviceFile("C", [deviceGUID |-> "guid-C", knowledge |-> K_A80C9]),
     YdeviceFile("D", [deviceGUID |-> "guid-D", knowledge |-> K_A75]),
     YdeviceFile("E", [deviceGUID |-> "guid-E"]),
     YdeviceFile("F", [friendlyName |-> "Test"]),
     YdeviceFile("G", [deviceGUID |-> "guid-G", knowledge |-> K_Bad]),
     [name |-> "H", valid_json |-> FALSE, data |-> <<>>]}

\* Directory listings: files of distinct names in any order.
RECURSIVE DeviceListings(_)
DeviceListings(n) ==
    IF n = 0 THEN {<<>>}
    ELSE LET shorter == DeviceListings(n - 1) IN
         shorter \cup
         {Append(l, f) : <<l, f>> \in
             {p \in shorter \X DevicePool :
                 /\ Len(p[1]) = n - 1
                 /\ \A i \in 1..Len(p[1]) : p[1][i].name # p[2].name}}

\* Version tokens handed to compare_versions and get_latest_version.
T_A99 == <<"A", "-", "9", "9">>
T_B1 == <<"B", "-", "1">>
T_A86 == <<"A", "-", "8", "6">>
T_A87 == <<"A", "-", "8", "7">>

TokenPool == {T_A99, T_B1, T_A86, T_A87, VBad}

DeviceInit ==
    /\ collections = EmptyCollections
    /\ applied_deltas = <<>>
    /\ base_state = <<>>
    /\ yfull = <<>>
    /\ ydiffs = <<>>
    /\ last = [op |-> "init", target |-> 0, err |-> "", restored |-> -1]
    /\ delta = <<>>
    /\ history = <<>>
    /\ devices \in DeviceListings(MaxDevices)
    /\ call = NoCall
    /\ devices_dir \in BOOLEAN
    /\ ~devices_dir => devices = <<>>
    /\ create_backups = FALSE
    /\ backups = {}
    /\ temps = {}
    /\ clock = 0
    /\ NoLock
    /\ NoBudget

\* The DeviceManager call, whole; the budget on disk is left as it is.
Calls(op, args, result) ==
    /\ call' = [op |-> op, args |-> args, result |-> result]
    /\ UNCHANGED <<collections, applied_deltas, base_state, yfull, ydiffs,
                   last, delta, history, devices,
                   writer_vars, lock_vars, budget_vars>>

GetActiveDeviceGuid ==
    Calls("get_active_device_guid", <<>>, get_active_device_guid(devices))

CompareVersions(version1, version2) ==
    Calls("compare_versions", <<version1, version2>>,
          compare_versions(version1, version2))

GetLatestVersion(versions) ==
    Calls("get_latest_version", versions, get_latest_version(versions))

\* ','.join(tokens)
RECURSIVE JoinComma(_)
JoinComma(tokens) ==
    IF Len(tokens) = 1 THEN tokens[1]
    ELSE tokens[1] \o <<",">> \o JoinComma(Tail(tokens))

\* Composite knowledge strings of up to MaxParts tokens: equal counters on
\* two devices, a counter written with a leading zero.
CompositeTokens ==
    LET pool == {T_A99, T_B1, T_A86, <<"B", "-", "8", "6">>,
                 <<"A", "-", "0", "8", "7">>}
    IN UNION {[1..n -> pool] : n \in 1..MaxParts}

GetLatestVersionFromComposite(tokens) ==
    Calls("get_latest_version_from_composite", tokens,
          get_latest_version_from_composite(JoinComma(tokens)))

GetGlobalKnowledge ==
    Calls("get_global_knowledge", <<>>,
          get_global_knowledge(devices_dir, devices))

DeviceNext ==
    \/ GetActiveDeviceGuid
    \/ \E a, b \in TokenPool : CompareVersions(a, b)
    \/ \E a, b \in TokenPool : GetLatestVersion(<<a, b>>)
    \/ \E tokens \in CompositeTokens : GetLatestVersionFromComposite(tokens)
    \/ GetGlobalKnowledge

DeviceSpec == DeviceInit /\ [][DeviceNext]_vars

(***************************************************************************)
(* The DeviceManager calls whose result depends on their arguments alone:  *)
(* the listing of the budget directory handed to _get_data_dir and the     *)
(* string handed to parse_composite_knowledge_string.  The budget has no   *)
(* device here.                                                            *)
(***************************************************************************)
\* The argument is ','.join(parts).
ParseCompositeKnowledgeString(parts) ==
    Calls("parse_composite_knowledge_string", JoinComma(parts),
          parse_composite_knowledge_string(JoinComma(parts)))

\* What budget_dir.iterdir() may yield, in the order it yields it: up to
\* MaxEntries entries of distinct names, among them two directories and a
\* file named 'data1~...'.
RootListings ==
    LET pool ==
          {[name |-> <<"d","a","t","a","1","~","A">>, is_dir |-> TRUE],
           [name |-> <<"d","a","t","a","1","~","B">>, is_dir |-> TRUE],
           [name |-> <<"d","a","t","a","1","~","F">>, is_dir |-> FALSE],
           [name |-> <<"d","a","t","a","2">>, is_dir |-> TRUE],
           [name |-> <<"B","u","d","g","e","t",".","y","m","e","t","a">>,
            is_dir |-> FALSE]}
    IN {l \in UNION {[1..n -> pool] : n \in 0..MaxEntries} :
           \A i, j \in 1..Len(l) : i # j => l[i].name # l[j].name}

GetDataDir(budget_dir, entries) ==
    Calls("_get_data_dir", <<budget_dir, entries>>,
          _get_data_dir(budget_dir, entries))

ArgumentInit == DeviceInit /\ devices = <<>> /\ ~devices_dir

ArgumentNext ==
    \/ \E budget_dir \in BOOLEAN, entries \in RootListings :
           GetDataDir(budget_dir, entries)
    \/ \E parts \in UNION {[1..n -> {T_A86, T_B1, <<" ", "B", "-", "1">>,
                                     <<>>, VBad}] : n \in 1..MaxParts} :
           ParseCompositeKnowledgeString(parts)

ArgumentSpec == ArgumentInit /\ [][ArgumentNext]_vars

(***************************************************************************)
(* C11: _discover_delta_files returns every .ydiff file of the listing, in *)
(* ascending order of the effective version (the greatest counter among    *)
(* the tokens) of the start stamp of the file name; composite start stamps *)
(* are not compared as text.                                               *)
(***************************************************************************)
EffectiveStart(filename) ==
    EffectiveCounter(_parse_delta_versions(filename).start_version)

C11_DiscoveredAscending ==
    LET d == _discover_delta_files(ydiffs) IN
    /\ d.ok
    /\ Len(d.files) = Len(ydiffs)
    /\ \A i \in 1..Len(ydiffs) : \E j \in 1..Len(d.files) : d.files[j] = ydiffs[i]
    /\ \A i, j \in 1..Len(d.files) :
           i < j => EffectiveStart(d.files[i].name) <= EffectiveStart(d.files[j].name)

\* parse() applied 'A-1_A-2' before 'A-1,B-3_A-4', which the directory lists
\* first and which is the smaller of the two as text (',' < '_').
C11_Witness ==
    /\ last.op = "parse"
    /\ last.err = ""
    /\ Len(ydiffs) = 2
    /\ ydiffs[1].name = YdiffName(VC3, VA4)
    /\ ydiffs[2].name = YdiffName(VA1, VA2)
    /\ applied_deltas = <<YdiffName(VA1, VA2), YdiffName(VC3, VA4)>>

(***************************************************************************)
(* C12: determinism.  For a fixed budget on disk, the collections parse()  *)
(* produces are the same whatever order the directory lists the .ydiff     *)
(* files in, also when two files have the same effective start counter.    *)
(***************************************************************************)
\* The orders in which the directory may list the same files.
Reorderings(listing) ==
    {l \in [1..Len(listing) -> {listing[i] : i \in 1..Len(listing)}] :
        \A i \in 1..Len(listing) : \E j \in 1..Len(listing) : l[j] = listing[i]}

C12_ListingOrderIrrelevant ==
    /\ last.op = "parse"
    /\ last.err = ""
    => \A l \in Reorderings(ydiffs) :
           parse(FreshParser, yfull, l).st.collections
               = parse(FreshParser, yfull, ydiffs).st.collections

(***************************************************************************)
(* C13: restore_to_version(v) with v negative, or v neither 0 nor the end  *)
(* version counter of a change file, raises ValueError and leaves the      *)
(* collections and applied_deltas as they were before the call.            *)
(***************************************************************************)
\* 0 and the effective end version of every change file on disk.
EndVersionsOnDisk ==
    {0} \cup {EffectiveCounter(_parse_delta_versions(ydiffs[i].name).end_version) :
                 i \in 1..Len(ydiffs)}

InvalidTarget(v) == v < 0 \/ v \notin EndVersionsOnDisk

C13_InvalidRestoreRejected ==
    [][(last'.op = "restore_to_version" /\ InvalidTarget(last'.target))
       => /\ last'.err = "ValueError"
          /\ collections' = collections
          /\ applied_deltas' = applied_deltas]_vars

\* A restore to a version no file ends at was refused on a parser that had
\* replayed change files.
C13_Witness ==
    /\ last.op = "restore_to_version"
    /\ last.target > 0
    /\ InvalidTarget(last.target)
    /\ last.err = "ValueError"
    /\ applied_deltas # <<>>

(***************************************************************************)
(* C14: parse_up_to_version(v) with v negative, or v neither 0 nor the end *)
(* version counter of a change file, fails with an error instead of        *)
(* returning a budget.                                                     *)
(***************************************************************************)
C14_InvalidParseTargetRejected ==
    /\ last.op = "parse_up_to_version"
    /\ InvalidTarget(last.target)
    => last.err # ""

(***************************************************************************)
(* C15: get_available_versions returns 0 and the end version counter of    *)
(* each change file as a strictly ascending list, no value twice, and does *)
(* not fail when two change files have the same end version counter.       *)
(***************************************************************************)
C15_AvailableVersionsStrictlyAscending ==
    last.op = "restore_to_version" =>
        LET a == get_available_versions(ydiffs) IN
        /\ a.ok
        /\ {a.versions[i] : i \in 1..Len(a.versions)} = EndVersionsOnDisk
        /\ \A i, j \in 1..Len(a.versions) :
               i < j => a.versions[i] < a.versions[j]

(***************************************************************************)
(* Vocabulary of the device properties                                     *)
(***************************************************************************)
\* The device records: the .ydevice files that are valid JSON.
DeviceRecords == {devices[i] : i \in {j \in 1..Len(devices) : devices[j].valid_json}}

\* The records that carry a GUID and a knowledge string.
Carriers == {f \in DeviceRecords : HasGuid(f.data) /\ HasKnowledge(f.data)}

\* The order of version tokens: by counter, then by device id.
TokenBelow(t, u) ==
    \/ t[2] < u[2]
    \/ t[2] = u[2] /\ LetterRank(t[1]) < LetterRank(u[1])

\* Effective version of a knowledge string: its greatest token.
EffectiveToken(knowledge) ==
    LET tokens == parse_composite_knowledge_string(knowledge).versions IN
    CHOOSE t \in {tokens[i] : i \in 1..Len(tokens)} :
        \A i \in 1..Len(tokens) : ~TokenBelow(t, tokens[i])

Sign(n) == IF n < 0 THEN -1 ELSE IF n > 0 THEN 1 ELSE 0

(***************************************************************************)
(* C16: active-replica selection.  When the device records that carry a    *)
(* GUID and a knowledge string all have well-formed knowledge, and there   *)
(* is one, get_active_device_guid returns the GUID of such a record whose  *)
(* effective version is the greatest of all (by counter, then device id),  *)
(* whatever the names and the order of the .ydevice files.                 *)
(***************************************************************************)
C16_ActiveIsLatest ==
    /\ call.op = "get_active_device_guid"
    /\ Carriers # {}
    /\ \A f \in Carriers : ValidVersion(f.data["knowledge"])
    => /\ call.result.err = ""
       /\ \E f \in Carriers :
              /\ f.data["deviceGUID"] = call.result.guid
              /\ \A g \in Carriers :
                     ~TokenBelow(EffectiveToken(f.data["knowledge"]),
                                 EffectiveToken(g.data["knowledge"]))

\* B.ydevice (B-75) is listed first, C.ydevice ('A-80,C-9') is selected.
C16_Witness ==
    /\ call.op = "get_active_device_guid"
    /\ Len(devices) = 2
    /\ devices[1].name = "B"
    /\ devices[2].name = "C"
    /\ call.result = Guid("guid-C")

(***************************************************************************)
(* C17: get_active_device_guid returns a GUID and raises nothing whenever  *)
(* at least one device record has a deviceGUID, also when other .ydevice   *)
(* files are not valid JSON and when knowledge strings are malformed or    *)
(* absent.                                                                 *)
(***************************************************************************)
C17_SelectionAlwaysSucceeds ==
    /\ call.op = "get_active_device_guid"
    /\ \E f \in DeviceRecords : HasGuid(f.data)
    => call.result.err = ""

(***************************************************************************)
(* C18: when no device record carries a knowledge field,                   *)
(* get_active_device_guid returns the GUID of the first .ydevice file      *)
(* discovered; it raises FileNotFoundError exactly when there is no        *)
(* .ydevice file, and a ValueError when the first file yields no GUID.     *)
(***************************************************************************)
NoKnowledge == \A f \in DeviceRecords : "knowledge" \notin DOMAIN f.data

\* json.JSONDecodeError is a subclass of ValueError.
IsValueError(err) == err \in {"ValueError", "JSONDecodeError"}

C19_CompareAgreesWithLatest ==
    /\ call.op = "compare_versions"
    /\ call.result.ok
    /\ call.args[1] # call.args[2]
    => (call.result.value > 0
           <=> get_latest_version(call.args).version = call.args[1])

(***************************************************************************)
(* C20: compare_versions is negative for ('A-99', 'B-1'), positive for     *)
(* ('B-1', 'A-99'), negative for ('A-86', 'A-87'), 0 for a token and       *)
(* itself, and antisymmetric on valid tokens.                              *)
(***************************************************************************)
C20_CompareVersions ==
    /\ call.op = "compare_versions"
    /\ call.result.ok
    => /\ call.args = <<T_A99, T_B1>> => call.result.value < 0
       /\ call.args = <<T_B1, T_A99>> => call.result.value > 0
       /\ call.args = <<T_A86, T_A87>> => call.result.value < 0
       /\ call.args[1] = call.args[2] => call.result.value = 0
       /\ Sign(call.result.value)
              = -Sign(compare_versions(call.args[2], call.args[1]).value)

C20_Witness ==
    /\ call.op = "compare_versions"
    /\ call.args = <<T_A99, T_B1>>
    /\ call.result = [ok |-> TRUE, value |-> -1]

(***************************************************************************)
(* DeviceManager: advancing the knowledge of a device                      *)
(***************************************************************************)
\* Variant: the counter is left as it is.
increment_version_unchanged(version_str) == The({
    IF ~p.ok THEN [ok |-> FALSE, version |-> <<>>]
    ELSE [ok |-> TRUE,
          version |-> <<p.device_id, "-">> \o StrOfInt(p.version_num)]
    : p \in {parse_version_string(version_str)} })

\* increment_version(version_str); ok = FALSE is the ValueError of a string
\* that is not one token
increment_version(version_str) == The({
    IF ~p.ok THEN [ok |-> FALSE, version |-> <<>>]
    ELSE [ok |-> TRUE,
          version |-> <<p.device_id, "-">> \o StrOfInt(p.version_num + 1)]
    : p \in {parse_version_string(version_str)} })

\* An argument left at its default None, among arguments that are strings.
NoArg == <<None>>

\* Variant: the record is rebuilt from the two knowledge fields.
knowledge_fields_only(device_data, new_knowledge, new_full_budget_knowledge) ==
    [k \in {"knowledge", "knowledgeInFullBudgetFile"} |->
        IF k = "knowledge" THEN new_knowledge ELSE new_full_budget_knowledge]

\* device_data["knowledge"] = ...; device_data["knowledgeInFullBudgetFile"] = ...
set_knowledge_fields(device_data, new_knowledge, new_full_budget_knowledge) ==
    DictSet(DictSet(device_data, "knowledge", new_knowledge),
            "knowledgeInFullBudgetFile", new_full_budget_knowledge)

\* The I/O errors the environment may answer a file operation with, by the
\* operation that fails; "none" is a run without any.
Faults ==
    {"none", "read_bytes", "read", "ydiff_open", "ydiff_write", "temp_open",
     "temp_write", "replace"}

\* Variant: the record is written over the .ydevice file itself.
write_in_place(file, device_data, fault) ==
    IF fault = "temp_open" THEN [err |-> "IOError", file |-> file, temp |-> FALSE]
    ELSE IF fault = "temp_write"
    THEN [err |-> "IOError", file |-> [file EXCEPT !.valid_json = FALSE],
          temp |-> FALSE]
    ELSE [err |-> "", file |-> [file EXCEPT !.data = device_data],
          temp |-> FALSE]

\* The try block of update_device_knowledge: the record is dumped to
\* '<name>.ydevice.tmp', which then replaces the .ydevice file; on any
\* exception the temporary file is unlinked if it exists and the exception
\* is raised again.  temp is whether the temporary file is left on disk.
write_via_temp(file, device_data, fault) ==
    IF fault \in {"temp_open", "temp_write", "replace"}
    THEN [err |-> "IOError", file |-> file, temp |-> FALSE]
    ELSE [err |-> "", file |-> [file EXCEPT !.data = device_data],
          temp |-> FALSE]

\* update_device_knowledge(ydevice_path, new_knowledge,
\* new_full_budget_knowledge) on the .ydevice file: the exception raised, the
\* file afterwards, the backup written, whether a temporary file is left.
update_device_knowledge(file, new_knowledge, new_full_budget_knowledge, backup, now, fault) ==
    IF backup /\ fault = "read_bytes"
    THEN [err |-> "IOError", file |-> file, backup |-> {}, temp |-> FALSE]
    ELSE The({
         IF fault = "read"
         THEN [err |-> "IOError", file |-> file, backup |-> written,
               temp |-> FALSE]
         ELSE IF ~file.valid_json
         THEN [err |-> "JSONDecodeError", file |-> file, backup |-> written,
               temp |-> FALSE]
         ELSE The({ [err |-> w.err, file |-> w.file, backup |-> written,
                     temp |-> w.temp]
                    : w \in {write_via_temp(file,
                          set_knowledge_fields(file.data, new_knowledge,
                              IF new_full_budget_knowledge = NoArg
                              THEN new_knowledge
                              ELSE new_full_budget_knowledge),
                          fault)} })
         : written \in {IF backup
                        THEN {[name |-> file.name, timestamp |-> now,
                               file |-> file]}
                        ELSE {}} })

\* backup_path.write_bytes(...): the file of that name and timestamp is
\* replaced.
WithBackups(old, written) ==
    {b \in old : \A w \in written :
                    b.name # w.name \/ b.timestamp # w.timestamp}
    \cup written

(***************************************************************************)
(* YnabWriter                                                              *)
(***************************************************************************)
\* entity_type.rstrip('s'), for the keys of the entities dict: the plural
\* names lose their last letter ('categories' becomes 'categorie')
singular_type(entity_type) ==
    CASE entity_type = "transactions" -> "transaction"
      [] entity_type = "accounts" -> "account"
      [] entity_type = "payees" -> "payee"
      [] entity_type = "categories" -> "categorie"
      [] OTHER -> entity_type

\* The keys of _serialize_transaction(transaction)
_serialize_transaction == {"accountId", "date", "amount", "cleared", "accepted"}

\* entity_to_ydiff_item(entity, entity_type): the base item and the fields
\* of the serializer of the type, if the type has one
entity_to_ydiff_item(entity, entity_type) ==
    LET serialized ==
            CASE entity_type = "transaction" -> _serialize_transaction
              [] entity_type = "account" ->
                   {"accountName", "accountType", "onBudget", "sortableIndex",
                    "hidden"}
              [] entity_type = "payee" -> {"name", "enabled"}
              [] OTHER -> {}
    IN DictUpdate([entityType |-> entity_type,
                   entityId |-> entity["entityId"],
                   entityVersion |-> entity["entityVersion"],
                   isTombstone |-> FALSE,
                   madeWithKnowledge |-> None,
                   isResolvedConflict |-> FALSE],
                  [k \in serialized |-> entity[k]])

\* The items of generate_ydiff: entities is the dict as the sequence of its
\* (type, list) pairs, in insertion order.
RECURSIVE ydiff_items(_)
ydiff_items(entities) ==
    IF entities = <<>> THEN <<>>
    ELSE [i \in 1..Len(entities[1][2]) |->
             entity_to_ydiff_item(entities[1][2][i],
                                  singular_type(entities[1][1]))]
         \o ydiff_items(Tail(entities))

\* generate_ydiff(entities, start_version, end_version, device_info) as the
\* file of the name generate_ydiff_filename gives; publishTime and the keys
\* that are None are left out.
generate_ydiff(entities, start_version, end_version, device_info) ==
    [name |-> YdiffName(start_version, end_version),
     complete |-> TRUE,
     shortDeviceId |-> device_info["shortDeviceId"],
     startVersion |-> start_version,
     endVersion |-> end_version,
     deviceGUID |-> device_info["deviceGUID"],
     dataVersion |-> "4.2",
     items |-> ydiff_items(entities)]

\* open(ydiff_path, 'w') and f.write(...): a file of the name is written
\* over, a new one appears at place at of the directory listing.
WriteFile(listing, f, at) ==
    IF \E i \in 1..Len(listing) : listing[i].name = f.name
    THEN [i \in 1..Len(listing) |->
             IF listing[i].name = f.name THEN f ELSE listing[i]]
    ELSE SubSeq(listing, 1, at - 1) \o <<f>> \o SubSeq(listing, at, Len(listing))

\* The dict write_changes returns, or the exception that leaves it.
Written(new_version, ydiff_filename) ==
    [success |-> TRUE, error |-> "", raised |-> "",
     new_version |-> new_version, ydiff_filename |-> ydiff_filename]

Failed(error) ==
    [success |-> FALSE, error |-> error, raised |-> "",
     new_version |-> <<>>, ydiff_filename |-> <<>>]

\* write_changes(entities, current_knowledge) of a writer whose device
\* manager has a budget directory with one device directory: what it
\* returns, and the .ydevice files, the .ydiff files of the device
\* directory, the backup written and the temporary file afterwards.  The
\* .ydevice file is the first one glob('*.ydevice') lists.
write_changes(files, listing, entities, current_knowledge, backup, now, fault, at) == The({
    IF ~new.ok THEN
        [result |-> Failed("ValueError"), devices |-> files,
         ydiffs |-> listing, backup |-> {}, temp |-> FALSE]
    ELSE IF files = <<>> THEN
        [result |-> Failed("FileNotFoundError"), devices |-> files,
         ydiffs |-> listing, backup |-> {}, temp |-> FALSE]
    ELSE IF fault = "read" THEN
        [result |-> Failed("IOError"), devices |-> files,
         ydiffs |-> listing, backup |-> {}, temp |-> FALSE]
    ELSE IF ~files[1].valid_json THEN
        [result |-> Failed("JSONDecodeError"), devices |-> files,
         ydiffs |-> listing, backup |-> {}, temp |-> FALSE]
    ELSE IF ~({"shortDeviceId", "deviceGUID"} \subseteq DOMAIN files[1].data) THEN
        [result |-> [Failed("") EXCEPT !.raised = "KeyError"],
         devices |-> files, ydiffs |-> listing, backup |-> {}, temp |-> FALSE]
    ELSE IF fault = "ydiff_open" THEN
        [result |-> Failed("IOError"), devices |-> files,
         ydiffs |-> listing, backup |-> {}, temp |-> FALSE]
    ELSE The({
         IF fault = "ydiff_write" THEN
             [result |-> Failed("IOError"), devices |-> files,
              ydiffs |-> WriteFile(listing,
                            [ydiff EXCEPT !.complete = FALSE,
                                          !.items = <<>>], at),
              backup |-> {}, temp |-> FALSE]
         ELSE The({
              IF u.err # "" THEN
                  [result |-> Failed(u.err), devices |-> files,
                   ydiffs |-> WriteFile(listing, ydiff, at),
                   backup |-> u.backup, temp |-> u.temp]
              ELSE
                  [result |-> Written(new.version, ydiff.name),
                   devices |-> [files EXCEPT ![1] = u.file],
                   ydiffs |-> WriteFile(listing, ydiff, at),
                   backup |-> u.backup, temp |-> u.temp]
              : u \in {update_device_knowledge(files[1], new.version, NoArg,
                                               backup, now, fault)} })
         : ydiff \in {generate_ydiff(entities, current_knowledge,
                                     new.version, files[1].data)} })
    : new \in {increment_version(current_knowledge)} })

(***************************************************************************)
(* Writer specification: one budget with one device directory, written by  *)
(* YnabWriter and DeviceManager                                            *)
(***************************************************************************)
MaxClock == 1

\* YnabParser(budget_dir).parse() on a new parser; a .ydiff file cut short
\* is not valid JSON.
ReadBudget(data, listing) ==
    IF \E i \in 1..Len(listing) : ~listing[i].complete
    THEN Outcome(FreshParser, "JSONDecodeError")
    ELSE parse(FreshParser, data, listing)

WriterInit ==
    /\ collections = EmptyCollections
    /\ applied_deltas = <<>>
    /\ base_state = <<>>
    /\ yfull \in {s \in Snapshots : "payees" \in DOMAIN s}
    /\ ydiffs = <<>>
    /\ last = [op |-> "init", target |-> 0, err |-> "", restored |-> -1]
    /\ delta = <<>>
    /\ history = <<>>
    /\ LET pool ==
              {YdeviceFile("A", [deviceGUID |-> "guid-A", shortDeviceId |-> "A",
                                 friendlyName |-> "Test", knowledge |-> VA3,
                                 knowledgeInFullBudgetFile |-> VA1]),
               YdeviceFile("B", [deviceGUID |-> "guid-B", shortDeviceId |-> "B",
                                 knowledge |-> VB2,
                                 knowledgeInFullBudgetFile |-> VB2]),
               YdeviceFile("C", [deviceGUID |-> "guid-C", knowledge |-> VA1]),
               [name |-> "H", valid_json |-> FALSE, data |-> <<>>]}
       IN devices \in
              {l \in UNION {[1..n -> pool] : n \in 0..MaxDevices} :
                  \A i, j \in 1..Len(l) : i # j => l[i].name # l[j].name}
    /\ call = NoCall
    /\ devices_dir = TRUE
    /\ create_backups \in BOOLEAN
    /\ backups = {}
    /\ temps = {}
    /\ clock = 0
    /\ NoLock
    /\ NoBudget

\* The entities dicts handed to write_changes: nothing, a transaction of the
\* budget as parsed with its memo changed, or a payee followed by a
\* transaction that has a memo with its amount changed; the changed entities
\* carry entity_version.
EntityChoices(colls, entity_version) ==
    LET transactions == {colls["transactions"][id] :
                            id \in DOMAIN colls["transactions"]}
        payees == {colls["payees"][id] : id \in DOMAIN colls["payees"]}
    IN {<<>>}
       \cup {<<<<"transactions",
                 <<[t EXCEPT !["entityVersion"] = entity_version,
                             !["memo"] = "edited"]>>>>>> : t \in transactions}
       \cup {<<<<"payees", <<[p[1] EXCEPT !["entityVersion"] = entity_version]>>>>,
               <<"transactions",
                 <<[p[2] EXCEPT !["entityVersion"] = entity_version,
                                !["amount"] = "999"]>>>>>> :
                p \in payees \X {t \in transactions : t["memo"] # None}}

\* writer.write_changes(entities, current_knowledge), the whole call
WriteChanges(current_knowledge, fault, now, at) ==
    /\ now <= MaxClock
    /\ \E budget \in {ReadBudget(yfull, ydiffs)} :
       \E new \in {increment_version(current_knowledge)} :
       \E entities \in EntityChoices(budget.st.collections,
                          IF new.ok THEN new.version ELSE current_knowledge) :
       \E r \in {write_changes(devices, ydiffs, entities, current_knowledge,
                               create_backups, now, fault, at)} :
           /\ devices' = r.devices
           /\ ydiffs' = r.ydiffs
           /\ backups' = WithBackups(backups, r.backup)
           /\ temps' = IF r.temp THEN temps \cup {devices[1].name} ELSE temps
           /\ clock' = now
           /\ call' = [op |-> "write_changes",
                       args |-> [entities |-> entities,
                                 current_knowledge |-> current_knowledge],
                       result |-> r.result, fault |-> fault]
    /\ UNCHANGED <<collections, applied_deltas, base_state, yfull, last,
                   delta, history, devices_dir, create_backups, lock_vars,
                   budget_vars>>

\* device_manager.update_device_knowledge(ydevice_path, new_knowledge,
\* new_full_budget_knowledge) on the file at place i of the listing
UpdateDeviceKnowledge(i, new_knowledge, new_full_budget_knowledge, fault, now) ==
    /\ now <= MaxClock
    /\ \E u \in {update_device_knowledge(devices[i], new_knowledge,
                     new_full_budget_knowledge, create_backups, now, fault)} :
           /\ devices' = [devices EXCEPT ![i] = u.file]
           /\ backups' = WithBackups(backups, u.backup)
           /\ temps' = IF u.temp THEN temps \cup {devices[i].name} ELSE temps
           /\ clock' = now
           /\ call' = [op |-> "update_device_knowledge",
                       args |-> [i |-> i, new_knowledge |-> new_knowledge,
                                 new_full_budget_knowledge |->
                                     new_full_budget_knowledge],
                       result |-> [err |-> u.err], fault |-> fault]
    /\ UNCHANGED <<collections, applied_deltas, base_state, yfull, ydiffs,
                   last, delta, history, devices_dir, create_backups,
                   lock_vars, budget_vars>>

\* The knowledge strings callers pass: a token, a composite string, and the
\* global knowledge of the budget.
KnowledgeChoices ==
    {VA1, VC3}
    \cup The({ IF g.err = "" /\ ~g.none THEN {g.knowledge} ELSE {}
               : g \in {get_global_knowledge(devices_dir, devices)} })

\* Calls that write are at least a second apart, and MaxClock seconds
\* are watched.
WriterNext ==
    \/ \E current_knowledge \in KnowledgeChoices, fault \in Faults,
          at \in 1..(Len(ydiffs) + 1) :
           WriteChanges(current_knowledge, fault, clock + 1, at)
    \/ \E i \in 1..Len(devices), new_knowledge \in {VA4, VC3},
          new_full_budget_knowledge \in {NoArg, VA1},
          fault \in Faults \ {"ydiff_open", "ydiff_write"} :
           UpdateDeviceKnowledge(i, new_knowledge, new_full_budget_knowledge,
                                 fault, clock + 1)

WriterSpec == WriterInit /\ [][WriterNext]_vars

(***************************************************************************)
(* LockManager.  budget.lock is locked through filelock.FileLock, a        *)
(* library outside the repository: acquire() polls the lock file, takes it *)
(* when no other FileLock object holds it and raises Timeout once the      *)
(* timeout has passed; release() gives it up.                              *)
(***************************************************************************)
MaxCallers == 3
MaxTimeout == 1

\* LockManager(budget_path, timeout): the exception __init__ raises for the
\* path, "" when it is a budget directory
LockManager(budget_path) ==
    CASE budget_path = "missing" -> "FileNotFoundError"
      [] budget_path = "file" -> "ValueError"
      [] budget_path = "no Budget.ymeta" -> "ValueError"
      [] OTHER -> ""

\* Variant: a failed acquire is ignored and the block is entered.
enter_regardless(holder, caller, seconds, timeout) ==
    IF holder = 0 THEN [lock |-> caller, pc |-> "block", raised |-> ""]
    ELSE IF seconds >= timeout
    THEN [lock |-> holder, pc |-> "block", raised |-> ""]
    ELSE [lock |-> holder, pc |-> "acquire", raised |-> ""]

\* __enter__, one poll of file_lock.acquire(): the lock is taken and self
\* returned, or the Timeout is raised again as Exception('Failed to acquire
\* lock for budget: ...'), or the caller sleeps until the next poll
__enter__(holder, caller, seconds, timeout) ==
    IF holder = 0 THEN [lock |-> caller, pc |-> "block", raised |-> ""]
    ELSE IF seconds >= timeout
    THEN [lock |-> holder, pc |-> "failed", raised |-> "Exception"]
    ELSE [lock |-> holder, pc |-> "acquire", raised |-> ""]

\* Variant: the lock is kept.
exit_without_release(holder, caller, exc_val) ==
    [lock |-> holder, raised |-> exc_val]

\* __exit__(exc_type, exc_val, exc_tb): file_lock.release(); None is
\* returned, so the exception of the block goes on to the caller
__exit__(holder, caller, exc_val) ==
    [lock |-> IF holder = caller THEN 0 ELSE holder, raised |-> exc_val]

(***************************************************************************)
(* Lock specification: callers that each run one with LockManager(...)     *)
(* block on the same budget directory                                      *)
(***************************************************************************)
Callers == 1..MaxCallers

LockInit ==
    /\ collections = EmptyCollections
    /\ applied_deltas = <<>>
    /\ base_state = <<>>
    /\ yfull = <<>>
    /\ ydiffs = <<>>
    /\ last = [op |-> "init", target |-> 0, err |-> "", restored |-> -1]
    /\ delta = <<>>
    /\ history = <<>>
    /\ devices = <<>>
    /\ call = NoCall
    /\ NoWriter
    /\ NoBudget
    /\ lock = 0
    /\ pc = [c \in Callers |-> "start"]
    /\ waited = [c \in Callers |-> 0]
    /\ raised = [c \in Callers |-> ""]

NotLock ==
    <<collections, applied_deltas, base_state, yfull, ydiffs, last, delta,
      history, devices, call, writer_vars, budget_vars>>

\* LockManager(budget_path, timeout=...) of caller c
Construct(c, budget_path) ==
    /\ pc[c] = "start"
    /\ \E err \in {LockManager(budget_path)} :
           /\ pc' = [pc EXCEPT ![c] = IF err = "" THEN "enter" ELSE "invalid"]
           /\ raised' = [raised EXCEPT ![c] = err]
    /\ UNCHANGED <<lock, waited, NotLock>>

\* with ... : __enter__ of caller c, one poll of acquire() at a time
Enter(c) ==
    /\ pc[c] \in {"enter", "acquire"}
    /\ \E r \in {__enter__(lock, c, waited[c], MaxTimeout)} :
           /\ lock' = r.lock
           /\ pc' = [pc EXCEPT ![c] = r.pc]
           /\ raised' = [raised EXCEPT ![c] = r.raised]
           /\ waited' = [waited EXCEPT ![c] =
                            IF r.pc = "acquire" THEN waited[c] + 1 ELSE waited[c]]
    /\ UNCHANGED NotLock

\* The with block of caller c ends, normally or by raising exc_val.
Block(c, exc_val) ==
    /\ pc[c] = "block"
    /\ pc' = [pc EXCEPT ![c] = "exit"]
    /\ raised' = [raised EXCEPT ![c] = exc_val]
    /\ UNCHANGED <<lock, waited, NotLock>>

\* __exit__ of caller c
Exit(c) ==
    /\ pc[c] = "exit"
    /\ \E r \in {__exit__(lock, c, raised[c])} :
           /\ lock' = r.lock
           /\ raised' = [raised EXCEPT ![c] = r.raised]
    /\ pc' = [pc EXCEPT ![c] = "left"]
    /\ UNCHANGED <<waited, NotLock>>

LockNext ==
    \E c \in Callers :
        \/ \E budget_path \in {"budget", "missing", "file", "no Budget.ymeta"} :
               Construct(c, budget_path)
        \/ Enter(c)
        \/ \E exc_val \in {"", "ValueError"} : Block(c, exc_val)
        \/ Exit(c)

LockSpec == LockInit /\ [][LockNext]_vars

\* A caller inside acquire() keeps polling, and __exit__ runs once the
\* block has ended.
LockLiveSpec ==
    LockSpec /\ \A c \in Callers : WF_vars(Enter(c)) /\ WF_vars(Exit(c))

(***************************************************************************)
(* Registry specification: a budget whose devices are registered by        *)
(* DeviceManager.register_new_device, each with its own device directory   *)
(***************************************************************************)
MAX_DEVICE_COUNT == 26

\* Variant: the letter after the number of ids is taken.
assign_by_count(existing_ids) ==
    IF Len(existing_ids) >= MAX_DEVICE_COUNT THEN [ok |-> FALSE, short_id |-> ""]
    ELSE [ok |-> TRUE, short_id |-> LetterSeq[Len(existing_ids) + 1]]

\* assign_next_short_id(existing_ids): the first letter of A..Z that is not
\* in the list, ValueError (ok = FALSE) when the list has 26 entries
assign_next_short_id(existing_ids) ==
    IF Len(existing_ids) >= MAX_DEVICE_COUNT THEN [ok |-> FALSE, short_id |-> ""]
    ELSE The({
         IF free = {} THEN [ok |-> FALSE, short_id |-> ""]
         ELSE [ok |-> TRUE,
               short_id |-> LetterSeq[CHOOSE i \in free : \A j \in free : i <= j]]
         : free \in {{i \in 1..MAX_DEVICE_COUNT :
                        \A n \in 1..Len(existing_ids) :
                            existing_ids[n] # LetterSeq[i]}} })

\* create_ydevice_structure(device_guid, short_id, friendly_name, knowledge)
\* with the defaults register_new_device leaves in place
create_ydevice_structure(device_guid, short_id, friendly_name, knowledge) ==
    IF device_guid = <<>> \/ short_id = "" \/ friendly_name = ""
       \/ ~parse_version_string(knowledge).ok
    THEN [err |-> "ValueError", data |-> <<>>]
    ELSE [err |-> "",
          data |-> [deviceGUID |-> device_guid, shortDeviceId |-> short_id,
                    friendlyName |-> friendly_name, knowledge |-> knowledge,
                    knowledgeInFullBudgetFile |-> knowledge,
                    hasFullKnowledge |-> FALSE, formatVersion |-> "1.2",
                    lastDataVersionFullyKnown |-> "4.2",
                    highestDataVersionImported |-> None]]

\* register_new_device(friendly_name): the exception raised, the .ydevice
\* files and the device directories afterwards, and the dict returned.
\* generate_device_guid() is str(uuid.uuid4()).upper(), taken to be a GUID no
\* directory has; the new directory is listed at place at.
register_new_device(dir_exists, files, dirs, friendly_name, at) ==
    IF ~dir_exists
    THEN [err |-> "FileNotFoundError", devices |-> files, device_dirs |-> dirs,
          info |-> <<>>]
    ELSE The({
         IF ~assigned.ok
         THEN [err |-> "ValueError", devices |-> files, device_dirs |-> dirs,
               info |-> <<>>]
         ELSE The({
              IF ydevice_data.err # ""
              THEN [err |-> ydevice_data.err, devices |-> files,
                    device_dirs |-> made, info |-> <<>>]
              ELSE [err |-> "",
                    devices |-> WriteFile(files,
                                    YdeviceFile(assigned.short_id,
                                                ydevice_data.data),
                                    Len(files) + 1),
                    device_dirs |-> made,
                    info |-> [deviceGUID |-> device_guid,
                              shortDeviceId |-> assigned.short_id]]
              : ydevice_data \in {create_ydevice_structure(device_guid,
                                      assigned.short_id, friendly_name,
                                      <<assigned.short_id, "-", "1">>)},
                made \in {SubSeq(dirs, 1, at - 1)
                          \o <<[name |-> device_guid, ydiffs |-> <<>>]>>
                          \o SubSeq(dirs, at, Len(dirs))} })
         : assigned \in {assign_next_short_id(
                            [i \in 1..Len(files) |-> files[i].name])},
           device_guid \in {<<"G", "U", "I", "D", "-">>
                            \o StrOfInt(CHOOSE n \in 1..(Len(dirs) + 1) :
                                   /\ \A i \in 1..Len(dirs) :
                                          dirs[i].name # <<"G", "U", "I", "D", "-">>
                                                         \o StrOfInt(n)
                                   /\ \A m \in 1..(n - 1) :
                                          \E i \in 1..Len(dirs) :
                                              dirs[i].name = <<"G", "U", "I", "D", "-">>
                                                             \o StrOfInt(m))} })

\* A budget without devices, or with one device registered earlier under
\* the letter B or C.
RegistryInit ==
    /\ collections = EmptyCollections
    /\ applied_deltas = <<>>
    /\ base_state = <<>>
    /\ yfull = <<>>
    /\ ydiffs = <<>>
    /\ last = [op |-> "init", target |-> 0, err |-> "", restored |-> -1]
    /\ delta = <<>>
    /\ history = <<>>
    /\ call = NoCall
    /\ devices_dir \in BOOLEAN
    /\ \E short_id \in {"", "B", "C"} :
           IF short_id = "" \/ ~devices_dir
           THEN devices = <<>> /\ device_dirs = <<>>
           ELSE /\ devices = <<YdeviceFile(short_id,
                                  create_ydevice_structure(
                                      <<"G", "U", "I", "D", "-", "1">>, short_id,
                                      "Old Device", <<short_id, "-", "1">>).data)>>
                /\ device_dirs = <<[name |-> <<"G", "U", "I", "D", "-", "1">>,
                                    ydiffs |-> <<>>]>>
    /\ create_backups = FALSE
    /\ backups = {}
    /\ temps = {}
    /\ clock = 0
    /\ known = <<>>
    /\ NoLock

\* device_manager.register_new_device(friendly_name), the whole call
RegisterNewDevice(friendly_name, at) ==
    /\ \E r \in {register_new_device(devices_dir, devices, device_dirs,
                                     friendly_name, at)} :
           /\ devices' = r.devices
           /\ device_dirs' = r.device_dirs
           /\ call' = [op |-> "register_new_device",
                       args |-> [friendly_name |-> friendly_name],
                       result |-> [err |-> r.err, info |-> r.info]]
    /\ UNCHANGED <<collections, applied_deltas, base_state, yfull, ydiffs,
                   last, delta, history, writer_vars, lock_vars, known>>

\* writer._get_device_directory(): the place in the listing of data1~* of
\* the first directory that is not 'devices'
_get_device_directory(dirs) ==
    IF dirs = <<>> THEN [err |-> "FileNotFoundError", at |-> 0]
    ELSE [err |-> "", at |-> 1]

\* writer.write_changes({}, current_knowledge) in a budget of several
\* devices, the whole call, without I/O errors: the .ydiff file goes into
\* the directory _get_device_directory() returns, which raises where the
\* file would be opened when there is none.
WriteChangesAmong(current_knowledge, now) ==
    /\ now <= MaxClock
    /\ Len(devices) <= MaxDevices
    /\ \E d \in {_get_device_directory(device_dirs)} :
       \E r \in {write_changes(devices,
                      IF d.err = "" THEN device_dirs[d.at].ydiffs ELSE <<>>,
                      <<>>, current_knowledge, create_backups, now,
                      IF d.err = "" THEN "none" ELSE "ydiff_open", 1)} :
           /\ devices' = r.devices
           /\ device_dirs' = IF d.err = ""
                             THEN [device_dirs EXCEPT ![d.at].ydiffs = r.ydiffs]
                             ELSE device_dirs
           /\ backups' = WithBackups(backups, r.backup)
           /\ temps' = IF r.temp THEN temps \cup {devices[1].name} ELSE temps
           /\ clock' = now
           /\ call' = [op |-> "write_changes",
                       args |-> [entities |-> <<>>,
                                 current_knowledge |-> current_knowledge],
                       result |-> IF d.err # "" /\ r.result.error = "IOError"
                                  THEN Failed(d.err) ELSE r.result,
                       fault |-> "none"]
    /\ UNCHANGED <<collections, applied_deltas, base_state, yfull, ydiffs,
                   last, delta, history, devices_dir, create_backups,
                   lock_vars, known>>

\* The directory of a new device is listed first or last; in budgets of
\* MaxDevices directories and more, last.  The writer is watched in
\* budgets of up to MaxDevices devices.
RegistryNext ==
    \/ \E at \in IF Len(device_dirs) < MaxDevices
                 THEN {1, Len(device_dirs) + 1}
                 ELSE {Len(device_dirs) + 1} :
           RegisterNewDevice("Test Device", at)
    \/ \E current_knowledge \in
             {VA1} \cup The({ IF g.err = "" /\ ~g.none THEN {g.knowledge} ELSE {}
                              : g \in {get_global_knowledge(devices_dir, devices)} }) :
           WriteChangesAmong(current_knowledge, clock + 1)

RegistrySpec == RegistryInit /\ [][RegistryNext]_vars

(***************************************************************************)
(* Cycle specification: callers that read the global knowledge and write   *)
(* one change inside the with block of a LockManager of the budget         *)
(***************************************************************************)
\* The budget has device A alone, or devices A and B in either order of the
\* listing; every caller is about to construct its LockManager.
CycleInit ==
    /\ collections = EmptyCollections
    /\ applied_deltas = <<>>
    /\ base_state = <<>>
    /\ yfull = <<>>
    /\ ydiffs = <<>>
    /\ last = [op |-> "init", target |-> 0, err |-> "", restored |-> -1]
    /\ delta = <<>>
    /\ history = <<>>
    /\ LET A == YdeviceFile("A", [deviceGUID |-> "guid-A", shortDeviceId |-> "A",
                                  knowledge |-> VA3,
                                  knowledgeInFullBudgetFile |-> VA1])
           B == YdeviceFile("B", [deviceGUID |-> "guid-B", shortDeviceId |-> "B",
                                  knowledge |-> VB2,
                                  knowledgeInFullBudgetFile |-> VB2])
       IN devices \in {<<A>>, <<A, B>>, <<B, A>>}
    /\ call = NoCall
    /\ NoWriter
    /\ device_dirs = <<>>
    /\ lock = 0
    /\ pc = [c \in Callers |-> "start"]
    /\ waited = [c \in Callers |-> 0]
    /\ raised = [c \in Callers |-> ""]
    /\ known = [c \in Callers |-> NoneKnown]

\* First statement of the block of caller c:
\* current_knowledge = device_manager.get_global_knowledge()
ReadKnowledge(c) ==
    /\ pc[c] = "block"
    /\ known' = [known EXCEPT ![c] = get_global_knowledge(devices_dir, devices)]
    /\ pc' = [pc EXCEPT ![c] = "read"]
    /\ UNCHANGED <<collections, applied_deltas, base_state, yfull, ydiffs,
                   last, delta, history, devices, call, writer_vars, lock,
                   waited, raised, device_dirs>>

\* Second statement of the block of caller c:
\* writer.write_changes({'payees': [payee of c]}, current_knowledge), the
\* whole call; the block ends with it, by the KeyError when it raises one.
WriteInBlock(c, fault, at) ==
    /\ pc[c] = "read"
    /\ known[c].err = "" /\ ~known[c].none
    /\ \E r \in {write_changes(devices, ydiffs,
                     <<<<"payees",
                         <<StoredPayee(LetterSeq[c], known[c].knowledge)>>>>>>,
                     known[c].knowledge, create_backups, clock, fault, at)} :
           /\ devices' = r.devices
           /\ ydiffs' = r.ydiffs
           /\ backups' = WithBackups(backups, r.backup)
           /\ temps' = IF r.temp THEN temps \cup {devices[1].name} ELSE temps
           /\ call' = [op |-> "write_changes",
                       args |-> [caller |-> c,
                                 current_knowledge |-> known[c].knowledge],
                       result |-> r.result, fault |-> fault]
           /\ raised' = [raised EXCEPT ![c] = r.result.raised]
    /\ pc' = [pc EXCEPT ![c] = "exit"]
    /\ UNCHANGED <<collections, applied_deltas, base_state, yfull, last,
                   delta, history, devices_dir, create_backups, clock, lock,
                   waited, budget_vars>>

CycleNext ==
    \E c \in Callers :
        \/ Construct(c, "budget")
        \/ Enter(c)
        \/ ReadKnowledge(c)
        \/ \E fault \in Faults, at \in {1, Len(ydiffs) + 1} :
               WriteInBlock(c, fault, at)
        \/ Exit(c)

CycleSpec == CycleInit /\ [][CycleNext]_vars

(***************************************************************************)
(* C21: get_latest_version_from_composite returns the token of the string  *)
(* with the greatest counter and, among tokens of that counter, the        *)
(* greatest device id; for a single token it returns that token.  Tokens   *)
(* are compared as (device id, counter) pairs.                             *)
(***************************************************************************)
TokenOf(version) ==
    <<version[1], IntOfDigits(SubSeq(version, 3, Len(version)))>>

C21_LatestOfComposite ==
    call.op = "get_latest_version_from_composite" =>
        /\ call.result.ok
        /\ VERSION_PATTERN(call.result.version)
        /\ \E i \in 1..Len(call.args) :
               TokenOf(call.args[i]) = TokenOf(call.result.version)
        /\ \A i \in 1..Len(call.args) :
               ~TokenBelow(TokenOf(call.result.version), TokenOf(call.args[i]))

\* Two tokens of one counter on different devices, the smaller device id
\* first.
C21_Witness ==
    /\ call.op = "get_latest_version_from_composite"
    /\ Len(call.args) = 2
    /\ TokenOf(call.args[1])[2] = TokenOf(call.args[2])[2]
    /\ LetterRank(call.args[1][1]) < LetterRank(call.args[2][1])
    /\ call.result.version = call.args[2]

(***************************************************************************)
(* C22: get_global_knowledge returns None, without an error, when the      *)
(* devices directory is missing or no file that is valid JSON carries a    *)
(* knowledge key; otherwise, the knowledge strings being well formed, it   *)
(* returns the greatest effective version over the knowledge strings of    *)
(* the files that are valid JSON.                                          *)
(***************************************************************************)
Readable == {f \in DeviceRecords : "knowledge" \in DOMAIN f.data}

C22_GlobalKnowledge ==
    call.op = "get_global_knowledge" =>
        IF ~devices_dir \/ Readable = {}
        THEN call.result.err = "" /\ call.result.none
        ELSE (\A f \in Readable : ValidVersion(f.data["knowledge"])) =>
                 /\ call.result.err = ""
                 /\ ~call.result.none
                 /\ VERSION_PATTERN(call.result.knowledge)
                 /\ \E f \in Readable :
                        EffectiveToken(f.data["knowledge"])
                            = TokenOf(call.result.knowledge)
                 /\ \A f \in Readable :
                        ~TokenBelow(TokenOf(call.result.knowledge),
                                    EffectiveToken(f.data["knowledge"]))

\* A file that is not valid JSON is listed before a record whose composite
\* knowledge has its greatest counter on the first token.
C22_Witness ==
    /\ call.op = "get_global_knowledge"
    /\ Len(devices) = 2
    /\ ~devices[1].valid_json
    /\ devices[2].valid_json
    /\ "knowledge" \in DOMAIN devices[2].data
    /\ Len(parse_composite_knowledge_string(devices[2].data["knowledge"]).versions) = 2
    /\ ~call.result.none
    /\ call.result.knowledge = <<"A", "-", "8", "0">>

(***************************************************************************)
(* Vocabulary of the writer properties                                     *)
(***************************************************************************)
\* The step is a call of write_changes, of update_device_knowledge.
WriteChangesStep == call'.op = "write_changes" /\ clock' # clock

UpdateStep == call'.op = "update_device_knowledge" /\ clock' # clock

\* The entities of a dict handed to write_changes, in the order written.
RECURSIVE EntitiesOf(_)
EntitiesOf(entities) ==
    IF entities = <<>> THEN <<>>
    ELSE entities[1][2] \o EntitiesOf(Tail(entities))

(***************************************************************************)
(* C23: over the successful write_changes calls, with any valid            *)
(* current_knowledge, the effective counter of the knowledge stored in the *)
(* .ydevice record never decreases.                                        *)
(***************************************************************************)
C23_KnowledgeNeverDecreases ==
    [][(/\ WriteChangesStep
        /\ call'.result.success
        /\ "knowledge" \in DOMAIN devices[1].data
        /\ ValidVersion(devices[1].data["knowledge"]))
       => EffectiveCounter(devices'[1].data["knowledge"])
              >= EffectiveCounter(devices[1].data["knowledge"])]_vars

(***************************************************************************)
(* C24: write_changes leaves no partially written and no orphaned .ydiff   *)
(* file: every file of the device directory is complete, and a call that   *)
(* does not succeed leaves the directory as it was.                        *)
(***************************************************************************)
C24_NoPartialOrOrphanedYdiff ==
    [][WriteChangesStep =>
           /\ \A i \in 1..Len(ydiffs') : ydiffs'[i].complete
           /\ ~call'.result.success => ydiffs' = ydiffs]_vars

(***************************************************************************)
(* C25: update_device_knowledge is atomic.  A call that raises leaves      *)
(* every .ydevice file as it was, a call that returns leaves the file      *)
(* valid JSON with the new knowledge, and no '.ydevice.tmp' file remains   *)
(* either way; the same holds for the update inside write_changes.         *)
(***************************************************************************)
C25_UpdateIsAtomic ==
    [][/\ UpdateStep =>
              /\ temps' = {}
              /\ IF call'.result.err # "" THEN devices' = devices
                 ELSE /\ devices'[call'.args.i].valid_json
                      /\ devices'[call'.args.i].data["knowledge"]
                             = call'.args.new_knowledge
       /\ WriteChangesStep =>
              /\ temps' = {}
              /\ IF ~call'.result.success THEN devices' = devices
                 ELSE /\ devices'[1].valid_json
                      /\ devices'[1].data["knowledge"]
                             = call'.result.new_version]_vars

\* The write of the temporary file failed on a record that is valid JSON:
\* the call raised, the record has its old knowledge, no temporary file is
\* there.
C25_Witness ==
    /\ call.op = "update_device_knowledge"
    /\ call.fault = "temp_write"
    /\ call.result.err = "IOError"
    /\ devices[call.args.i].valid_json
    /\ "knowledge" \in DOMAIN devices[call.args.i].data
    /\ devices[call.args.i].data["knowledge"] # call.args.new_knowledge
    /\ temps = {}

(***************************************************************************)
(* C26: a successful update_device_knowledge sets knowledge and            *)
(* knowledgeInFullBudgetFile (to new_knowledge when no value is given) and *)
(* changes nothing else: every other field of the record and every other   *)
(* .ydevice file keep their values; with create_backups a backup file      *)
(* holding the content before the update exists afterwards.                *)
(***************************************************************************)
C26_UpdateChangesKnowledgeOnly ==
    [][(UpdateStep /\ call'.result.err = "") =>
           LET i == call'.args.i
               old == devices[i].data
               new == devices'[i].data
           IN /\ DOMAIN devices' = DOMAIN devices
              /\ \A j \in (DOMAIN devices) \ {i} : devices'[j] = devices[j]
              /\ devices'[i].name = devices[i].name
              /\ DOMAIN new
                     = (DOMAIN old) \cup {"knowledge", "knowledgeInFullBudgetFile"}
              /\ \A k \in (DOMAIN old) \ {"knowledge", "knowledgeInFullBudgetFile"} :
                     new[k] = old[k]
              /\ new["knowledge"] = call'.args.new_knowledge
              /\ new["knowledgeInFullBudgetFile"]
                     = IF call'.args.new_full_budget_knowledge = NoArg
                       THEN call'.args.new_knowledge
                       ELSE call'.args.new_full_budget_knowledge
              /\ create_backups =>
                     \E b \in backups' :
                         b.name = devices[i].name /\ b.file = devices[i]]_vars

\* With backups on, a record with a friendly name got a new knowledge and
\* another knowledgeInFullBudgetFile; the backup holds the old knowledge.
C26_Witness ==
    /\ call.op = "update_device_knowledge"
    /\ call.result.err = ""
    /\ create_backups
    /\ call.args.new_full_budget_knowledge # NoArg
    /\ "friendlyName" \in DOMAIN devices[call.args.i].data
    /\ devices[call.args.i].data["knowledge"] = call.args.new_knowledge
    /\ devices[call.args.i].data["knowledgeInFullBudgetFile"]
           # call.args.new_knowledge
    /\ \E b \in backups :
           /\ b.name = devices[call.args.i].name
           /\ b.timestamp = clock
           /\ b.file.data["knowledge"] # call.args.new_knowledge

(***************************************************************************)
(* C27: when write_changes returns success, new_version is the token of    *)
(* current_knowledge with its counter raised by one, the device directory  *)
(* holds a complete file '<current_knowledge>_<new_version>.ydiff' whose   *)
(* startVersion and endVersion are these two and whose items are one per   *)
(* supplied entity, and knowledge and knowledgeInFullBudgetFile of the     *)
(* .ydevice record both equal new_version.                                 *)
(***************************************************************************)
C27_SuccessfulWrite ==
    (call.op = "write_changes" /\ call.result.success) =>
        LET current_knowledge == call.args.current_knowledge
            new_version == call.result.new_version
            supplied == EntitiesOf(call.args.entities)
        IN /\ VERSION_PATTERN(current_knowledge)
           /\ VERSION_PATTERN(new_version)
           /\ TokenOf(new_version)
                  = <<current_knowledge[1], TokenOf(current_knowledge)[2] + 1>>
           /\ call.result.ydiff_filename
                  = current_knowledge \o <<"_">> \o new_version
                        \o <<".", "y", "d", "i", "f", "f">>
           /\ \E i \in 1..Len(ydiffs) :
                  /\ ydiffs[i].name = call.result.ydiff_filename
                  /\ ydiffs[i].complete
                  /\ ydiffs[i].startVersion = current_knowledge
                  /\ ydiffs[i].endVersion = new_version
                  /\ Len(ydiffs[i].items) = Len(supplied)
                  /\ \A k \in 1..Len(supplied) :
                         ydiffs[i].items[k]["entityId"] = supplied[k]["entityId"]
           /\ devices[1].data["knowledge"] = new_version
           /\ devices[1].data["knowledgeInFullBudgetFile"] = new_version

\* A payee and a transaction were written with the global knowledge as
\* current_knowledge.
C27_Witness ==
    /\ call.op = "write_changes"
    /\ call.result.success
    /\ Len(EntitiesOf(call.args.entities)) = 2
    /\ call.args.current_knowledge = VA3
    /\ call.result.new_version = VA4
    /\ \E i \in 1..Len(ydiffs) : ydiffs[i].name = YdiffName(VA3, VA4)

(***************************************************************************)
(* C28: read-modify-write.  A transaction of a parse is changed and handed *)
(* to write_changes with the global knowledge as current_knowledge; after  *)
(* the call succeeded, a parse on a new parser returns the transaction     *)
(* with the changed values of account id, date, amount, cleared, accepted  *)
(* and memo.                                                               *)
(***************************************************************************)
C28_ReadModifyWrite ==
    [][(/\ WriteChangesStep
        /\ call'.result.success
        /\ ReadBudget(yfull, ydiffs).err = ""
        /\ get_global_knowledge(devices_dir, devices)
               = Knowledge(call'.args.current_knowledge))
       => LET budget == ReadBudget(yfull', ydiffs')
              supplied == EntitiesOf(call'.args.entities)
          IN /\ budget.err = ""
             /\ \A k \in 1..Len(supplied) :
                    "memo" \in DOMAIN supplied[k] =>
                        /\ supplied[k]["entityId"]
                               \in DOMAIN budget.st.collections["transactions"]
                        /\ \A f \in {"accountId", "date", "amount", "cleared",
                                     "accepted", "memo"} :
                               budget.st.collections["transactions"][
                                   supplied[k]["entityId"]][f] = supplied[k][f]]_vars

(***************************************************************************)
(* C29: mutual exclusion.  At most one caller is inside the with block of  *)
(* a LockManager of the budget directory, and it holds the lock; a caller  *)
(* whose acquire() finds the lock held after its timeout gets an Exception *)
(* and never enters its block.                                             *)
(***************************************************************************)
InBlock(c) == pc[c] \in {"block", "exit"}

C29_MutualExclusion ==
    /\ [](\A c, d \in Callers : InBlock(c) /\ InBlock(d) => c = d /\ lock = c)
    /\ [][\A c \in Callers :
              /\ (pc[c] \in {"enter", "acquire"} /\ lock \notin {0, c}
                      /\ waited[c] >= MaxTimeout /\ pc'[c] # pc[c])
                     => pc'[c] = "failed" /\ raised'[c] = "Exception"
              /\ pc[c] = "failed" => pc'[c] = "failed"]_vars

\* One caller is inside its block, the other has waited for its timeout
\* and failed.
C29_Witness ==
    \E c, d \in Callers :
        /\ pc[c] = "block"
        /\ pc[d] = "failed"
        /\ raised[d] = "Exception"
        /\ waited[d] = MaxTimeout

(***************************************************************************)
(* C30: leaving the with block, normally or by an exception, releases the  *)
(* lock, and the exception goes on to the caller; a caller that acquires   *)
(* after every other caller has left or failed eventually enters its       *)
(* block.                                                                  *)
(***************************************************************************)
Gone(c) == pc[c] \in {"left", "failed", "invalid"}

C30_ExitReleases ==
    /\ [][\A c \in Callers :
              (pc[c] = "exit" /\ pc'[c] = "left")
                  => /\ lock = c
                     /\ lock' = 0
                     /\ raised'[c] = raised[c]]_vars
    /\ \A c \in Callers :
           (pc[c] \in {"enter", "acquire"}
                /\ \A d \in Callers \ {c} : Gone(d))
               ~> pc[c] = "block"

\* A caller's block raised and the caller has left with the exception; the
\* other caller then entered its block.
C30_Witness ==
    \E c, d \in Callers :
        /\ pc[c] = "left"
        /\ raised[c] = "ValueError"
        /\ pc[d] = "block"
        /\ lock = d

(***************************************************************************)
(* C31: the data directory is found only when exactly one subdirectory of  *)
(* the budget directory has a name starting with 'data1~'; with none or    *)
(* with two or more the call raises.                                       *)
(***************************************************************************)
DataDirsOf(entries) ==
    {i \in 1..Len(entries) :
        entries[i].is_dir /\ StartsWith(entries[i].name, DataDirPrefix)}

C31_ExactlyOneDataDir ==
    (call.op = "_get_data_dir" /\ call.args[1]) =>
        (call.result.err = "" <=> Cardinality(DataDirsOf(call.args[2])) = 1)

(***************************************************************************)
(* C32: parse_composite_knowledge_string raises ValueError when a part     *)
(* between the commas is empty or, blanks around it aside, not a valid     *)
(* token; otherwise it returns the (device_id, counter) pair of every      *)
(* part, in the order of the string.                                       *)
(***************************************************************************)
C32_EveryPartMustBeAToken ==
    call.op = "parse_composite_knowledge_string" =>
        LET parts == Split(call.args, ",")
            tokens == [i \in 1..Len(parts) |->
                          parse_version_string(Strip(parts[i]))]
        IN IF \E i \in 1..Len(parts) : ~tokens[i].ok
           THEN ~call.result.ok
           ELSE /\ call.result.ok
                /\ call.result.versions
                       = [i \in 1..Len(parts) |->
                             <<tokens[i].device_id, tokens[i].version_num>>]

(***************************************************************************)
(* C33: a string that parse_version_string accepts comes back unchanged    *)
(* when the parsed pair is formatted as '<device_id>-<counter>', as        *)
(* get_latest_version_from_composite does for a string of one token.       *)
(***************************************************************************)
C33_TokenRoundTrip ==
    (/\ call.op = "get_latest_version_from_composite"
     /\ Len(call.args) = 1
     /\ parse_version_string(call.args[1]).ok)
    => call.result.version = call.args[1]

(***************************************************************************)
(* C34: a record of a change file that lacks entityId, entityType,         *)
(* entityVersion or isTombstone makes _apply_delta raise, whatever its     *)
(* type and tombstone flag; it is neither applied nor skipped.             *)
(***************************************************************************)
C34_FourFieldsRequired ==
    \A e \in Passes :
        ~(RequiredItemKeys \subseteq DOMAIN e.item) => e.err # ""

(***************************************************************************)
(* C35: when an upsert record and the stored entity have effective         *)
(* versions of equal counter and different device ids, the token with the  *)
(* greater device id is the later one: the record replaces the stored      *)
(* entity when its device id is the greater, and leaves it when it is the  *)
(* smaller.                                                                *)
(***************************************************************************)
C35_TieBrokenByDeviceId ==
    \A e \in Passes :
        (/\ IsUpdatePass(e)
         /\ ValidVersion(e.item["entityVersion"])
         /\ ValidVersion(StoredBefore(e)["entityVersion"])
         /\ EffectiveToken(e.item["entityVersion"])[2]
                = EffectiveToken(StoredBefore(e)["entityVersion"])[2]
         /\ EffectiveToken(e.item["entityVersion"])[1]
                # EffectiveToken(StoredBefore(e)["entityVersion"])[1])
        => IF TokenBelow(EffectiveToken(StoredBefore(e)["entityVersion"]),
                         EffectiveToken(e.item["entityVersion"]))
           THEN e.after[CollectionOf(e.item)][e.item["entityId"]]["entityVersion"]
                    = e.item["entityVersion"]
           ELSE e.after = e.before

(***************************************************************************)
(* C36: register_new_device keeps the short ids of the registered devices  *)
(* pairwise distinct letters of A..Z.  A call that succeeds takes the      *)
(* first letter no .ydevice file has, leaves every existing file as it is  *)
(* and writes a record whose knowledge is '<short_id>-1'; with 26 files    *)
(* the call raises ValueError and creates neither a directory nor a file.  *)
(***************************************************************************)
RegisterStep == call'.op = "register_new_device" /\ devices_dir

C36_DistinctShortIds ==
    [][RegisterStep =>
         LET ids == {devices[i].name : i \in 1..Len(devices)}
             free == {i \in 1..MAX_DEVICE_COUNT : LetterSeq[i] \notin ids}
         IN
         /\ \A i, j \in 1..Len(devices') :
                /\ devices'[i].data["shortDeviceId"] \in UpperLetters
                /\ i # j => devices'[i].data["shortDeviceId"]
                                # devices'[j].data["shortDeviceId"]
         /\ IF Len(devices) >= MAX_DEVICE_COUNT
            THEN /\ call'.result.err = "ValueError"
                 /\ devices' = devices
                 /\ device_dirs' = device_dirs
            ELSE /\ call'.result.err = ""
                 /\ call'.result.info["shortDeviceId"]
                        = LetterSeq[CHOOSE i \in free : \A j \in free : i <= j]
                 /\ Len(devices') = Len(devices) + 1
                 /\ SubSeq(devices', 1, Len(devices)) = devices
                 /\ devices'[Len(devices')].name
                        = call'.result.info["shortDeviceId"]
                 /\ devices'[Len(devices')].data["shortDeviceId"]
                        = call'.result.info["shortDeviceId"]
                 /\ devices'[Len(devices')].data["knowledge"]
                        = <<call'.result.info["shortDeviceId"], "-", "1">>]_vars

\* The budget that began with device B has all 26 letters, and the call
\* after the one that registered Z raised ValueError.
C36_Witness ==
    /\ call.op = "register_new_device"
    /\ call.result.err = "ValueError"
    /\ Len(devices) = MAX_DEVICE_COUNT
    /\ devices[1].name = "B"
    /\ devices[2].name = "A"
    /\ devices[MAX_DEVICE_COUNT].name = "Z"
    /\ Len(device_dirs) = MAX_DEVICE_COUNT

(***************************************************************************)
(* C38: in a budget of several devices, the directory that receives the    *)
(* new .ydiff file of a successful write_changes is the directory of the   *)
(* device whose .ydevice record the call advances and whose shortDeviceId  *)
(* and deviceGUID it writes into the file.                                 *)
(***************************************************************************)
C38_YdiffGoesToOwnDirectory ==
    [][(/\ call'.op = "write_changes"
        /\ clock' # clock
        /\ call'.result.success)
       => \A d \in 1..Len(device_dirs) :
              device_dirs'[d].ydiffs # device_dirs[d].ydiffs =>
                  \A i \in 1..Len(devices) :
                      devices'[i] # devices[i] =>
                          /\ device_dirs[d].name = devices[i].data["deviceGUID"]
                          /\ \A f \in 1..Len(device_dirs'[d].ydiffs) :
                                 device_dirs'[d].ydiffs[f].name
                                     = call'.result.ydiff_filename
                                 => device_dirs'[d].ydiffs[f].deviceGUID
                                        = devices[i].data["deviceGUID"]]_vars

(***************************************************************************)
(* C37: after any calls of parse, parse_up_to_version, apply_deltas and    *)
(* restore_to_version on one parser, applied_deltas lists no change file   *)
(* twice, and after a call that returned the collections are the snapshot  *)
(* (nothing, while no snapshot was loaded) with exactly the files of       *)
(* applied_deltas folded in, in that order.                                *)
(***************************************************************************)
RECURSIVE FoldedIn(_, _)
FoldedIn(colls, names) ==
    IF names = <<>> THEN colls
    ELSE FoldedIn(
             _apply_delta(colls,
                 (CHOOSE f \in {ydiffs[i] : i \in 1..Len(ydiffs)} :
                      f.name = Head(names)).items).colls,
             Tail(names))

C37_AppliedDeltasBookkeeping ==
    /\ \A i, j \in 1..Len(applied_deltas) :
           i # j => applied_deltas[i] # applied_deltas[j]
    /\ (last.op # "init" /\ last.err = "") =>
           collections = FoldedIn(IF base_state = <<>> THEN EmptyCollections
                                  ELSE SnapshotCollections, applied_deltas)

(***************************************************************************)
(* C39: when every caller reads the global knowledge and calls             *)
(* write_changes with it inside the with block of a LockManager, no        *)
(* write_changes touches a .ydiff file that is already in the device       *)
(* directory, and a write_changes that returns success leaves the global   *)
(* knowledge one counter above the one it was.                             *)
(***************************************************************************)
C39_LockedCyclesDoNotCollide ==
    [][call'.op = "write_changes" /\ call' # call =>
         /\ \A i \in 1..Len(ydiffs) :
                \E j \in 1..Len(ydiffs') : ydiffs'[j] = ydiffs[i]
         /\ call'.result.success =>
                get_global_knowledge(devices_dir, devices').knowledge
                    = increment_version(
                          get_global_knowledge(devices_dir, devices).knowledge
                      ).version]_vars

====
